---- MODULE Spec2Model ----
\* Verification model of the cookie-decliner content script:
\*   src/src/api-handler.ts     (APIHandler: vendor API bridge, rate limiter)
\*   src/src/content-script.ts  (CookieDecliner: scan, observer, messages)
\* The page, the vendors (TCF, SourcePoint) and the clock are the environment.
EXTENDS Integers, Sequences, FiniteSets, Bags, TLC

\* ---------------------------------------------------------------------------
\* Program constants
\* ---------------------------------------------------------------------------
RATE_LIMIT_MS == 2000
MAX_DECLINE_ATTEMPTS == 5

\* ---------------------------------------------------------------------------
\* Bounds of the model
\* ---------------------------------------------------------------------------
\* Date.now() when the content script starts (any value >= RATE_LIMIT_MS: the
\* real clock is milliseconds since 1970, lastDeclineAttempt starts at 0).
StartTime == 10000
\* On a page that runs the content script the clock advances in steps of
\* TickMs, at most MaxTicks times; when APIHandler is driven on its own, in
\* steps of ApiTickMs, at most MaxApiTicks times.
TickMs == 2000
MaxTicks == 1
ApiTickMs == 1000
MaxApiTicks == 10
\* Candidate elements the catalog rules can match, in scan order.
MaxElems == 2
\* SourcePoint iframes the page can hold.
MaxIframes == 1
\* Consent iframes on a page whose iframes are of any kind.
MaxPageIframes == 2
\* Events the page and its frames cause (messages, insertions, loads, TCF events).
MaxEvents == 2
\* Ceiling of the counters that record performed side effects.
EffectCap == 2
\* Longest text of an element or of a rule.
MaxTextLen == 2
\* Most elements of a document.
MaxDocElems == 2
\* Longest chain of ancestors of an element.
MaxDepth == 6
\* Most mutation records of a batch the observer reports.
MaxRecords == 2
\* Most ancestors of a chain that carry a text, a class or an id.
MaxMarked == 1

Elements == 1..MaxElems
Iframes == 1..MaxIframes

VARIABLES
  pc,                   \* position in CookieDecliner.init, "running", or "api"
  now,                  \* Date.now()
  apiConsentProcessed,  \* APIHandler.consentProcessed
  lastDeclineAttempt,   \* APIHandler.lastDeclineAttempt
  declineAttemptCount,  \* APIHandler.declineAttemptCount
  consentProcessed,     \* CookieDecliner.consentProcessed
  processed,            \* CookieDecliner.processed (attempted elements)
  observer,             \* CookieDecliner.observer: "null", "connected", "disconnected"
  processedIframes,     \* CookieDecliner.processedIframes
  tcfCheckCount,        \* waitForTCFAPI's tcfCheckCount
  timers,               \* bag of pending setTimeout callbacks
  getTCDataPending,     \* getTCData callback registered, not yet delivered
  tcfListener,          \* addEventListener callback registered
  pingPending,          \* ping callbacks not yet delivered
  bulkPending,          \* setAllConsentAndLegitInterest callbacks not yet delivered
  tcfapi,               \* typeof window.__tcfapi === 'function'
  sp,                   \* window._sp_
  isTop,                \* window === window.top
  dom,                  \* candidate elements of the page
  iframes,              \* SourcePoint iframes of the page
  events,               \* events the page has caused so far
  clicks,               \* DOMUtils.clickElement invocations so far
  vendorDeclines,       \* TCF bulk-decline calls + passes that invoked SourcePoint entry points
  lastOp,               \* what the last step did
  inbox,                \* the message event queued for the window's listener, or handled last
  tcData,               \* the vendor's answer to getTCData, queued for the callback or handled last
  tcfThrows,            \* the commands on which window.__tcfapi throws
  domCall               \* a call of a DOMUtils function: its input and, once made, its result

vars == <<pc, now, apiConsentProcessed, lastDeclineAttempt, declineAttemptCount,
          consentProcessed, processed, observer, processedIframes, tcfCheckCount,
          timers, getTCDataPending, tcfListener, pingPending, bulkPending,
          tcfapi, sp, isTop, dom, iframes, events, clicks, vendorDeclines, lastOp,
          inbox, tcData, tcfThrows, domCall>>

envVars == <<tcfapi, sp, isTop, dom, iframes, inbox, tcData, tcfThrows, domCall>>
tcfVars == <<tcfCheckCount, getTCDataPending, tcfListener, bulkPending>>
cdVars == <<consentProcessed, processed, observer, processedIframes>>

\* ---------------------------------------------------------------------------
\* Helpers
\* ---------------------------------------------------------------------------
Min(a, b) == IF a < b THEN a ELSE b

\* A counter of side effects; it stops counting at EffectCap.
Bump(c, n) == Min(c + n, EffectCap)

\* A pending setTimeout callback: what it runs and its argument.  Every delay
\* the code gives is positive and randomised; a pending timer runs at some
\* point after the step that set it.
Timer(kind, arg) == [kind |-> kind, arg |-> arg]
One(kind, arg) == SetToBag({Timer(kind, arg)})
Pending(kind) == {t \in BagToSet(timers) : t.kind = kind}
Without(t) == timers (-) SetToBag({t})

\* window._sp_ : absent, or an object with some of the decline entry points;
\* "throws" says that the last entry point invoked raises an exception.
SpMethods == {"onMessageChoiceSelect", "executeMessaging", "declineAll", "choiceReject"}
NoSP == [present |-> FALSE, methods |-> {}, throws |-> FALSE]
SpShapes ==
  { NoSP,
    [present |-> TRUE, methods |-> {}, throws |-> FALSE],
    [present |-> TRUE, methods |-> {"onMessageChoiceSelect", "declineAll"}, throws |-> FALSE],
    [present |-> TRUE, methods |-> {"declineAll"}, throws |-> TRUE] }

\* A call of a DOMUtils function: the function, its input, and its result
\* once the call is made.
DomCall(fn, input, made, result) ==
  [fn |-> fn, input |-> input, made |-> made, result |-> result]
NoDomCall == DomCall("none", <<>>, FALSE, <<>>)

\* What a step did: the decline side effects it performed (a DOM click, a TCF
\* bulk-decline call, SourcePoint entry points invoked, a message posted to an
\* iframe), whether it received a TCF bulk-decline success or accepted an
\* sp.hideMessage, whether an exception left it uncaught, and how
\* declineAllConsent's gates answered if it was called.
DeclineEffects == {"click", "tcfDecline", "spDecline", "postMessage"}
Effects == DeclineEffects \cup {"tcfSuccess", "hideMessage", "uncaught"}
Gates == {"none", "processed", "ceiling", "interval", "passed"}
Op(effects, gate) ==
  [effects |-> effects, gate |-> gate, sent |-> {}]
\* A step that performed no side effect and did not call declineAllConsent.
Idle == Op({}, "none")

\* ---------------------------------------------------------------------------
\* APIHandler (src/src/api-handler.ts)
\* ---------------------------------------------------------------------------
\* shouldAllowDeclineAttempt without the ceiling check of lines 152-155.
shouldAllowWithoutCeiling ==
  IF now - lastDeclineAttempt < RATE_LIMIT_MS THEN FALSE ELSE TRUE

\* shouldAllowDeclineAttempt without the interval check of lines 158-161.
shouldAllowWithoutInterval ==
  IF declineAttemptCount >= MAX_DECLINE_ATTEMPTS THEN FALSE ELSE TRUE

\* shouldAllowDeclineAttempt, lines 148-164.
shouldAllowDeclineAttempt ==
  IF declineAttemptCount >= MAX_DECLINE_ATTEMPTS THEN FALSE
  ELSE IF now - lastDeclineAttempt < RATE_LIMIT_MS THEN FALSE
  ELSE TRUE

recordDeclineAttempt ==
  /\ lastDeclineAttempt' = now
  /\ declineAttemptCount' = declineAttemptCount + 1

setConsentProcessed(processedArg) == apiConsentProcessed' = processedArg

\* The iframes tryIframeCommunication talks to (the id/src test of lines 335-337).
MatchingIframes == iframes

\* tryIframeCommunication: one delayed send per matching iframe.
tryIframeCommunication == SetToBag({Timer("iframePost", f) : f \in MatchingIframes})

\* Whether a pass over the SourcePoint entry points of lines 118-138 /
\* 295-311 invokes any of them (each one that is present is invoked, in
\* order, until one throws).
SpInvoked == sp.methods # {}
SpEffects == IF SpInvoked THEN {"spDecline"} ELSE {}

\* tryAlternativeDeclineMethods with setConsentProcessed(true) moved behind
\* the SourcePoint block, so that the iframe path marks consent as well.
tryAlternativeMarksProcessed(tm, done, gate) ==
  /\ setConsentProcessed(TRUE)
  /\ vendorDeclines' = Bump(vendorDeclines, IF sp.present /\ SpInvoked THEN 1 ELSE 0)
  /\ lastOp' = Op(done \cup (IF sp.present THEN SpEffects ELSE {}), gate)
  /\ timers' = IF sp.present /\ ~sp.throws THEN tm ELSE tm (+) tryIframeCommunication

\* tryAlternativeDeclineMethods, reached in a callback that has already
\* performed the effects `done` and got `gate` from the gates; tm is the timer
\* bag left by the caller.
tryAlternativeDeclineMethods(tm, done, gate) ==
  IF sp.present
  THEN /\ vendorDeclines' = Bump(vendorDeclines, IF SpInvoked THEN 1 ELSE 0)
       /\ lastOp' = Op(done \cup SpEffects, gate)
       /\ IF sp.throws
          THEN /\ UNCHANGED apiConsentProcessed
               /\ timers' = tm (+) tryIframeCommunication
          ELSE /\ setConsentProcessed(TRUE)
               /\ timers' = tm
  ELSE /\ UNCHANGED <<vendorDeclines, apiConsentProcessed>>
       /\ timers' = tm (+) tryIframeCommunication
       /\ lastOp' = Op(done, gate)

\* Refuse, but with the attempt recorded before the gates are consulted.
RefuseRecorded(tm, gate) ==
  /\ recordDeclineAttempt
  /\ UNCHANGED <<apiConsentProcessed, pingPending, vendorDeclines>>
  /\ timers' = tm
  /\ lastOp' = Op({}, gate)

\* declineAllConsent's early returns, lines 178-185.
Refuse(tm, gate) ==
  /\ UNCHANGED <<apiConsentProcessed, lastDeclineAttempt, declineAttemptCount,
                 pingPending, vendorDeclines>>
  /\ timers' = tm
  /\ lastOp' = Op({}, gate)

\* declineAllConsent past the gates, lines 187-220: the ping call of line 199
\* is in no try block.
Attempt(tm) ==
  /\ recordDeclineAttempt
  /\ IF tcfapi
     THEN /\ pingPending' = IF "ping" \in tcfThrows THEN pingPending ELSE pingPending + 1
          /\ UNCHANGED <<apiConsentProcessed, vendorDeclines>>
          /\ timers' = tm
          /\ lastOp' = Op(IF "ping" \in tcfThrows THEN {"uncaught"} ELSE {}, "passed")
     ELSE /\ UNCHANGED pingPending
          /\ tryAlternativeDeclineMethods(tm, {}, "passed")

\* declineAllConsent without the consentProcessed check of lines 178-180.
declineAllConsentUnchecked(tm) ==
  IF ~shouldAllowDeclineAttempt
  THEN Refuse(tm, IF declineAttemptCount >= MAX_DECLINE_ATTEMPTS THEN "ceiling" ELSE "interval")
  ELSE Attempt(tm)

\* declineAllConsent; tm is the timer bag left by the caller.  It determines
\* every APIHandler variable.
declineAllConsent(tm) ==
  IF apiConsentProcessed THEN Refuse(tm, "processed")
  ELSE IF ~shouldAllowDeclineAttempt
  THEN Refuse(tm, IF declineAttemptCount >= MAX_DECLINE_ATTEMPTS THEN "ceiling" ELSE "interval")
  ELSE Attempt(tm)

\* A callback that does not call declineAllConsent leaves APIHandler alone;
\* `op` is what the step did.
NoDecline(tm, op) ==
  /\ UNCHANGED <<apiConsentProcessed, lastDeclineAttempt, declineAttemptCount,
                 pingPending, vendorDeclines>>
  /\ timers' = tm
  /\ lastOp' = op

\* The commands the bridge passes to window.__tcfapi.
TCFCommands == {"getTCData", "addEventListener", "ping", "setAllConsentAndLegitInterest"}

\* Registration of the two TCF callbacks by handleTCFAPI (lines 69 and 85),
\* inside its try block: a call that throws ends the block.
handleTCFAPI ==
  IF tcfapi
  THEN /\ getTCDataPending' = (getTCDataPending \/ "getTCData" \notin tcfThrows)
       /\ tcfListener' = (tcfListener \/ tcfThrows \cap {"getTCData", "addEventListener"} = {})
  ELSE UNCHANGED <<getTCDataPending, tcfListener>>

\* handleSourcePointAPI, lines 100-143: the entry points are invoked, consent
\* is not marked processed.
handleSourcePointAPI ==
  IF sp.present
  THEN /\ vendorDeclines' = Bump(vendorDeclines, IF SpInvoked THEN 1 ELSE 0)
       /\ lastOp' = Op(SpEffects, "none")
       /\ UNCHANGED apiConsentProcessed
  ELSE /\ UNCHANGED <<vendorDeclines, apiConsentProcessed>>
       /\ lastOp' = Idle

\* ---------------------------------------------------------------------------
\* CookieDecliner (src/src/content-script.ts)
\* ---------------------------------------------------------------------------
ElemStatus == {"absent", "eligible", "hidden", "unrelated"}
\* "throwing": an eligible element whose click() throws.
ScanStatus == ElemStatus \cup {"throwing"}

\* DOMUtils.isElementVisible and DOMUtils.isCookieRelatedButton of a candidate.
isElementVisible(e) == dom[e] \in {"eligible", "unrelated", "throwing"}
isCookieRelatedButton(e) == dom[e] \in {"eligible", "hidden", "throwing"}

\* The elements for which processElement reaches the click (lines 55-65).
Clickable(e) ==
  /\ dom[e] # "absent"
  /\ isElementVisible(e)
  /\ e \notin processed
  /\ isCookieRelatedButton(e)

IsProcessed == consentProcessed \/ apiConsentProcessed

\* markConsentProcessed that leaves APIHandler's flag alone.
markOwnFlagOnly ==
  /\ consentProcessed' = TRUE
  /\ UNCHANGED apiConsentProcessed
  /\ observer' = IF observer = "null" THEN "null" ELSE "disconnected"

markConsentProcessed ==
  /\ consentProcessed' = TRUE
  /\ setConsentProcessed(TRUE)
  /\ observer' = IF observer = "null" THEN "null" ELSE "disconnected"

\* processElement that clicks and remembers the element but does not call
\* markConsentProcessed.
processElementUnmarked(e) ==
  /\ clicks' = Bump(clicks, 1)
  /\ processed' = processed \cup {e}
  /\ UNCHANGED <<consentProcessed, apiConsentProcessed, observer>>

\* processElement whose click is not in a try block: the exception of
\* click() ends processElement before the element is remembered.
processElementClickUnguarded(e) ==
  /\ clicks' = Bump(clicks, 1)
  /\ IF dom[e] = "throwing"
     THEN UNCHANGED <<processed, consentProcessed, apiConsentProcessed, observer>>
     ELSE /\ processed' = processed \cup {e}
          /\ markConsentProcessed

\* processElement on a clickable element: click (DOMUtils.clickElement
\* catches what click() throws), remember, mark processed.
processElement(e) ==
  /\ clicks' = Bump(clicks, 1)
  /\ processed' = processed \cup {e}
  /\ markConsentProcessed

\* findAndClickDeclineButton: the first candidate
\* in scan order that processElement accepts is clicked.
findAndClickDeclineButton(tm) ==
  /\ timers' = tm
  /\ UNCHANGED <<lastDeclineAttempt, declineAttemptCount, pingPending, vendorDeclines>>
  /\ IF IsProcessed \/ {e \in Elements : Clickable(e)} = {}
     THEN /\ UNCHANGED <<clicks, processed, consentProcessed, apiConsentProcessed, observer>>
          /\ lastOp' = Idle
     ELSE LET first == CHOOSE e \in Elements :
                         /\ Clickable(e)
                         /\ \A o \in Elements : Clickable(o) => e <= o
          IN /\ processElement(first)
             /\ lastOp' = Op({"click"}, "none")

\* --- init(), line by line ---------------------------------------------------
\* checkForGlobalAPIs, lines 26-42: the TCF probe.
CheckTCF ==
  /\ pc = "checkTCF"
  /\ IF apiConsentProcessed
     THEN /\ pc' = "scan"
          /\ NoDecline(timers, Idle)
          /\ UNCHANGED tcfVars
     ELSE /\ pc' = "checkSP"
          /\ handleTCFAPI
          /\ IF tcfapi
             THEN NoDecline(timers, Idle)
             ELSE NoDecline(timers (+) One("tcfCheck", 100), Idle)
          /\ UNCHANGED <<tcfCheckCount, bulkPending>>
  /\ UNCHANGED <<now, cdVars, envVars, events, clicks>>

\* checkForGlobalAPIs, lines 44-48.
CheckSP ==
  /\ pc = "checkSP"
  /\ pc' = "scan"
  /\ handleSourcePointAPI
  /\ UNCHANGED <<now, lastDeclineAttempt, declineAttemptCount,
                 pingPending, timers, tcfVars, cdVars, envVars, events, clicks>>

InitialScan ==
  /\ pc = "scan"
  /\ pc' = "observer"
  /\ findAndClickDeclineButton(timers)
  /\ UNCHANGED <<now, tcfVars, processedIframes, envVars, events>>

SetupMutationObserver ==
  /\ pc = "observer"
  /\ pc' = "listener"
  /\ observer' = "connected"
  /\ NoDecline(timers, Idle)
  /\ UNCHANGED <<now, tcfVars, consentProcessed, processed, processedIframes, envVars,
                 events, clicks>>

\* setupPostMessageListener: the listener, then scheduleIframeChecks.
SetupPostMessageListener ==
  /\ pc = "listener"
  /\ pc' = "running"
  /\ NoDecline(timers (+) One("iframeCheck", 0) (+) One("iframeCheck", 0)
                      (+) One("iframeCheck", 0), Idle)
  /\ UNCHANGED <<now, tcfVars, cdVars, envVars, events, clicks>>

\* --- TCF callbacks (delivered by the vendor, synchronously or later) ---------
\* The vendor runs callbacks inside a __tcfapi call or from its own events:
\* right after handleTCFAPI during init, or at any time afterwards.
VendorMayCall == pc \in {"checkSP", "running", "api"}

TCFEventStatus == {"cmpuishown", "tcloaded", "useractioncomplete"}
TCFCmpStatus == {"loaded", "loading"}

\* The vendor's answer to getTCData: (tcData, success), and where it is
\* ("none", "queued" for the callback, "handled").
TCData(success, eventStatus, cmpStatus, state) ==
  [success |-> success, eventStatus |-> eventStatus, cmpStatus |-> cmpStatus, state |-> state]
NoTCData == TCData(FALSE, "tcloaded", "loading", "none")

\* The body of the getTCData callback, lines 69-82.
getTCDataCallback(success, eventStatus, cmpStatus) ==
  /\ getTCDataPending' = FALSE
  /\ IF success /\ (eventStatus = "cmpuishown" \/ cmpStatus = "loaded")
     THEN declineAllConsent(timers)
     ELSE NoDecline(timers, Idle)

\* The vendor answers getTCData and the callback runs.
GetTCDataCallback(success, eventStatus, cmpStatus) ==
  /\ VendorMayCall
  /\ getTCDataPending
  /\ getTCDataCallback(success, eventStatus, cmpStatus)
  /\ UNCHANGED <<pc, now, tcfCheckCount, tcfListener, bulkPending, cdVars, envVars,
                 events, clicks>>

\* The vendor has its answer to getTCData ready.
ReportTCData(success, eventStatus, cmpStatus) ==
  /\ pc = "api"
  /\ getTCDataPending
  /\ tcData.state # "queued"
  /\ tcData' = TCData(success, eventStatus, cmpStatus, "queued")
  /\ NoDecline(timers, Idle)
  /\ UNCHANGED <<pc, now, tcfVars, cdVars, tcfapi, sp, isTop, dom, iframes, inbox,
                 tcfThrows, domCall, events, clicks>>

\* The getTCData callback runs on the vendor's answer.
DeliverTCData ==
  /\ pc = "api"
  /\ getTCDataPending
  /\ tcData.state = "queued"
  /\ tcData' = [tcData EXCEPT !.state = "handled"]
  /\ getTCDataCallback(tcData.success, tcData.eventStatus, tcData.cmpStatus)
  /\ UNCHANGED <<pc, now, tcfCheckCount, tcfListener, bulkPending, cdVars, tcfapi, sp,
                 isTop, dom, iframes, inbox, tcfThrows, domCall, events, clicks>>

\* addEventListener callback, lines 85-90: an event of the vendor's UI.
TCFEventCallback(success, eventStatus) ==
  /\ VendorMayCall
  /\ tcfListener
  /\ events < MaxEvents
  /\ events' = events + 1
  /\ IF success /\ eventStatus = "cmpuishown"
     THEN declineAllConsent(timers)
     ELSE NoDecline(timers, Idle)
  /\ UNCHANGED <<pc, now, tcfVars, cdVars, envVars, clicks>>

\* ping callback, lines 199-217.
PingCallback(success, cmpLoaded) ==
  /\ VendorMayCall
  /\ pingPending > 0
  /\ pingPending' = pingPending - 1
  /\ IF success /\ cmpLoaded
     THEN /\ IF "setAllConsentAndLegitInterest" \in tcfThrows
             THEN /\ UNCHANGED <<vendorDeclines, bulkPending>>
                  /\ lastOp' = Op({"uncaught"}, "none")
             ELSE /\ vendorDeclines' = Bump(vendorDeclines, 1)
                  /\ bulkPending' = bulkPending + 1
                  /\ lastOp' = Op({"tcfDecline"}, "none")
          /\ UNCHANGED <<apiConsentProcessed, timers>>
     ELSE /\ tryAlternativeDeclineMethods(timers, {}, "none")
          /\ UNCHANGED bulkPending
  /\ UNCHANGED <<pc, now, lastDeclineAttempt, declineAttemptCount, tcfCheckCount,
                 getTCDataPending, tcfListener, cdVars, envVars, events, clicks>>

\* setAllConsentAndLegitInterest callback, lines 204-211.
BulkDeclineCallback(success) ==
  /\ VendorMayCall
  /\ bulkPending > 0
  /\ bulkPending' = bulkPending - 1
  /\ IF success
     THEN /\ setConsentProcessed(TRUE)
          /\ lastOp' = Op({"tcfSuccess"}, "none")
          /\ UNCHANGED <<vendorDeclines, timers>>
     ELSE tryAlternativeDeclineMethods(timers, {}, "none")
  /\ UNCHANGED <<pc, now, lastDeclineAttempt, declineAttemptCount, pingPending,
                 tcfCheckCount, getTCDataPending, tcfListener, cdVars, envVars,
                 events, clicks>>

\* --- timers -------------------------------------------------------------------
\* A pending callback carries in `arg` the delay it was scheduled with where
\* the delay is a function of the program's state (tcfCheck), the iframe it is
\* for (iframeLoad, iframePost), 0 otherwise.
\* tcfChecker without the `window === window.top` test of line 243.
TcfCheckerInAnyFrame ==
  /\ pc = "running"
  /\ \E t \in Pending("tcfCheck") :
       /\ tcfCheckCount' = tcfCheckCount + 1
       /\ IF tcfapi
          THEN /\ handleTCFAPI
               /\ NoDecline(Without(t), Idle)
          ELSE /\ UNCHANGED <<getTCDataPending, tcfListener>>
               /\ IF tcfCheckCount' < 3
                  THEN NoDecline(Without(t) (+) One("tcfCheck", 1000 * tcfCheckCount'),
                                 Idle)
                  ELSE NoDecline(Without(t), Idle)
  /\ UNCHANGED <<pc, now, bulkPending, cdVars, envVars, events, clicks>>

\* tcfChecker of waitForTCFAPI, lines 230-248.
TcfChecker ==
  /\ pc = "running"
  /\ \E t \in Pending("tcfCheck") :
       /\ tcfCheckCount' = tcfCheckCount + 1
       /\ IF tcfapi
          THEN /\ handleTCFAPI
               /\ NoDecline(Without(t), Idle)
          ELSE /\ UNCHANGED <<getTCDataPending, tcfListener>>
               /\ IF tcfCheckCount' < 3 /\ isTop
                  THEN NoDecline(Without(t) (+) One("tcfCheck", 1000 * tcfCheckCount'),
                                 Idle)
                  ELSE NoDecline(Without(t), Idle)
  /\ UNCHANGED <<pc, now, bulkPending, cdVars, envVars, events, clicks>>

\* The rescan timer of the mutation observer, lines 97-101.
RescanTimer ==
  /\ pc = "running"
  /\ \E t \in Pending("rescan") :
       IF ~consentProcessed /\ ~apiConsentProcessed
       THEN findAndClickDeclineButton(Without(t))
       ELSE /\ NoDecline(Without(t), Idle)
            /\ UNCHANGED <<clicks, consentProcessed, processed, observer>>
  /\ UNCHANGED <<pc, now, tcfVars, processedIframes, envVars, events>>

\* The sp.showMessage timer, lines 197-201.
ShowMessageTimer ==
  /\ pc = "running"
  /\ \E t \in Pending("showMessage") :
       IF ~consentProcessed /\ ~apiConsentProcessed
       THEN declineAllConsent(Without(t))
       ELSE NoDecline(Without(t), Idle)
  /\ UNCHANGED <<pc, now, tcfVars, cdVars, envVars, events, clicks>>

\* The periodic iframe check of scheduleIframeChecks, lines 275-292.
IframeCheckTimer ==
  /\ pc = "running"
  /\ \E t \in Pending("iframeCheck") :
       /\ NoDecline(Without(t), Idle)
       /\ IF consentProcessed \/ apiConsentProcessed
          THEN UNCHANGED processedIframes
          ELSE processedIframes' = processedIframes \cup iframes
  /\ UNCHANGED <<pc, now, tcfVars, consentProcessed, processed, observer, envVars,
                 events, clicks>>

\* The timer started by an iframe's load event, lines 284-288.
IframeLoadTimer ==
  /\ pc = "running"
  /\ \E t \in Pending("iframeLoad") :
       IF ~consentProcessed /\ ~apiConsentProcessed
       THEN declineAllConsent(Without(t))
       ELSE NoDecline(Without(t), Idle)
  /\ UNCHANGED <<pc, now, tcfVars, cdVars, envVars, events, clicks>>

\* A pending callback of one of `kinds` runs in this step.
Resumes(kinds) ==
  \E t \in BagToSet(timers) :
    /\ t.kind \in kinds
    /\ CopiesIn(t, timers') < CopiesIn(t, timers)

\* --- cross-frame messages (setupPostMessageListener, lines 113-262) -----------
\* Strings are sequences of characters.
StrSpDot == <<"s", "p", ".">>
StrShowMessage == <<"s", "p", ".", "s", "h", "o", "w", "M", "e", "s", "s", "a", "g", "e">>
StrHideMessage == <<"s", "p", ".", "h", "i", "d", "e", "M", "e", "s", "s", "a", "g", "e">>
StrReadyForPreload == <<"s", "p", ".", "r", "e", "a", "d", "y", "F", "o", "r", "P", "r", "e", "l", "o", "a", "d">>
StrSpChoice == <<"s", "p", ".", "c", "h", "o", "i", "c", "e">>
StrCookieDecliner == <<"c", "o", "o", "k", "i", "e", "-", "d", "e", "c", "l", "i", "n", "e", "r">>
StrHideMessageMarkup == <<"s", "p", ".", "h", "i", "d", "e", "<", "M", "e", "s", "s", "a", "g", "e", ">">>
StrOther == <<"o", "t", "h", "e", "r">>
StrMessageChoiceSelect == <<"s", "p", ".", "m", "e", "s", "s", "a", "g", "e", "C", "h", "o", "i", "c", "e", "S", "e", "l", "e", "c", "t">>
StrMessageId == <<"1", "2", "3">>

startsWith(str, prefix) ==
  /\ Len(str) >= Len(prefix)
  /\ SubSeq(str, 1, Len(prefix)) = prefix

\* sanitizeString, lines 264-267.
DangerousChars == {"<", ">", "\"", "/", "\\", "&"}
KeepChar(c) == c \notin DangerousChars
sanitizeString(input) ==
  LET stripped == SelectSeq(input, KeepChar)
  IN SubSeq(stripped, 1, Min(100, Len(stripped)))

\* A JavaScript value: a tag and, for strings and numbers, the value.
Undefined == [t |-> "undefined", v |-> <<>>]
StrVal(str) == [t |-> "string", v |-> str]
NumVal(n) == [t |-> "number", v |-> <<n>>]
ObjVal == [t |-> "object", v |-> <<>>]

\* An origin: the string event.origin, given by what new URL() makes of it.
Origin(scheme, host) == [parses |-> TRUE, scheme |-> scheme, host |-> host]
OpaqueOrigin == [parses |-> FALSE, scheme |-> "null", host |-> <<>>]
PageOrigin == Origin("https", <<"news", "example">>)

trustedDomains ==
  { <<"sourcepoint", "mgr", "consensu", "org">>,
    <<"ccpa-notice", "sp-prod", "net">>,
    <<"notice", "sp-prod", "net">>,
    <<"cmp", "quantcast", "com">>,
    <<"cmp", "osano", "com">>,
    <<"consent", "cookiebot", "com">>,
    <<"consent", "trustarc", "com">>,
    <<"cdn", "cookielaw", "org">> }

\* hostname.endsWith('.' + domain), hostnames being sequences of labels.
endsWithDomain(host, domain) ==
  /\ Len(host) > Len(domain)
  /\ SubSeq(host, Len(host) - Len(domain) + 1, Len(host)) = domain

\* isTrustedOrigin with hostname.includes(domain) in place of the equality and
\* the '.'-anchored suffix test.
isTrustedOriginByContains(origin) ==
  IF origin = PageOrigin THEN TRUE
  ELSE IF ~origin.parses THEN FALSE
  ELSE \E domain \in trustedDomains :
         \E i \in 1..Len(origin.host) :
           /\ i + Len(domain) - 1 <= Len(origin.host)
           /\ SubSeq(origin.host, i, i + Len(domain) - 1) = domain

isTrustedOrigin(origin) ==
  IF origin = PageOrigin THEN TRUE
  ELSE IF ~origin.parses THEN FALSE
  ELSE \E domain \in trustedDomains :
         origin.host = domain \/ endsWithDomain(origin.host, domain)

\* event.data: a primitive, or an object with own properties `props`, the
\* prototype `proto` ("Object" for Object.prototype, "null" for none).
Primitive == [isObject |-> FALSE, proto |-> "null", props |-> <<>>, sealed |-> FALSE, cyclic |-> FALSE]
Obj(proto, props) == [isObject |-> TRUE, proto |-> proto, props |-> props, sealed |-> FALSE, cyclic |-> FALSE]

ObjectPrototypeKeys ==
  {"__proto__", "constructor", "__defineGetter__", "__defineSetter__",
   "__lookupGetter__", "__lookupSetter__", "hasOwnProperty", "isPrototypeOf",
   "propertyIsEnumerable", "toLocaleString", "toString", "valueOf"}

\* data[key] and (key in data).
Get(data, key) == IF key \in DOMAIN data.props THEN data.props[key] ELSE Undefined
In(key, data) ==
  \/ key \in DOMAIN data.props
  \/ data.proto = "Object" /\ key \in ObjectPrototypeKeys

isOwnMessage(data) ==
  IF data.isObject
  THEN \/ Get(data, "source") = StrVal(StrCookieDecliner)
       \/ Get(data, "type") = StrVal(StrSpChoice)
  ELSE FALSE

isSourcePointMessage(origin, data) ==
  IF ~isTrustedOrigin(origin) THEN FALSE
  ELSE /\ data.isObject
       /\ Get(data, "name").t = "string"
       /\ startsWith(Get(data, "name").v, StrSpDot)

dangerousKeys ==
  {"__proto__", "constructor", "prototype", "__defineGetter__", "__defineSetter__",
   "__lookupGetter__", "__lookupSetter__", "hasOwnProperty", "isPrototypeOf",
   "propertyIsEnumerable", "toLocaleString", "toString", "valueOf"}

\* isValidPostMessageData without the dangerousKeys loop of lines 241-243.
isValidWithoutKeyCheck(data) ==
  IF ~data.isObject THEN FALSE
  ELSE IF data.sealed THEN FALSE
  ELSE IF data.cyclic THEN FALSE
  ELSE IF In("name", data) /\ Get(data, "name").t # "string" THEN FALSE
  ELSE IF In("type", data) /\ Get(data, "type").t # "string" THEN FALSE
  ELSE IF In("choice", data) /\ Get(data, "choice").t \notin {"number", "string"} THEN FALSE
  ELSE TRUE

isValidPostMessageData(data) ==
  IF ~data.isObject THEN FALSE
  ELSE IF \E key \in dangerousKeys : In(key, data) THEN FALSE
  ELSE IF data.sealed THEN FALSE
  ELSE IF data.cyclic THEN FALSE
  ELSE IF In("name", data) /\ Get(data, "name").t # "string" THEN FALSE
  ELSE IF In("type", data) /\ Get(data, "type").t # "string" THEN FALSE
  ELSE IF In("choice", data) /\ Get(data, "choice").t \notin {"number", "string"} THEN FALSE
  ELSE TRUE

\* What handleSourcePointMessage does with the message: "show" (schedule a
\* decline attempt), "hide" (mark processed) or "none".
handleSourcePointMessage(data) ==
  IF ~isValidPostMessageData(data) THEN "none"
  ELSE IF Get(data, "name").t = "string"
  THEN LET messageName == sanitizeString(Get(data, "name").v)
       IN IF messageName = StrShowMessage THEN "show"
          ELSE IF messageName = StrHideMessage THEN "hide"
          ELSE "none"
  ELSE "none"

\* The gate of the listener at which a message is dropped, lines 116-125 and
\* 185, or "accepted".
rejectedAt(origin, data) ==
  IF ~isTrustedOrigin(origin) THEN "origin"
  ELSE IF isOwnMessage(data) THEN "self"
  ELSE IF ~isSourcePointMessage(origin, data) THEN "shape"
  ELSE IF ~isValidPostMessageData(data) THEN "payload"
  ELSE "accepted"

\* The two messages tryIframeCommunication posts to an iframe (api-handler.ts
\* 355-373), messageId being a string or undefined.
MessageIds == {Undefined, StrVal(StrMessageId)}
declineMessage(messageId) ==
  Obj("Object", [k \in {"type", "choice", "messageId"} |->
                   IF k = "type" THEN StrVal(StrSpChoice)
                   ELSE IF k = "choice" THEN NumVal(11) ELSE messageId])
choiceSelectMessage(messageId) ==
  Obj("Object", [k \in {"name", "body"} |->
                   IF k = "name" THEN StrVal(StrMessageChoiceSelect) ELSE ObjVal])
OutboundMessages ==
  {declineMessage(id) : id \in MessageIds} \cup {choiceSelectMessage(id) : id \in MessageIds}

\* The listener without the isOwnMessage return of line 121.
onMessageWithoutSelfGate(origin, data) ==
  IF ~isTrustedOrigin(origin) THEN "none"
  ELSE IF isSourcePointMessage(origin, data) THEN handleSourcePointMessage(data)
  ELSE "none"

\* The message listener's decision, lines 114-127.
onMessage(origin, data) ==
  IF ~isTrustedOrigin(origin) THEN "none"
  ELSE IF isOwnMessage(data) THEN "none"
  ELSE IF isSourcePointMessage(origin, data) THEN handleSourcePointMessage(data)
  ELSE "none"

\* A message event: its origin, its data and where it is ("none": no event,
\* "queued": posted and waiting for the listener, "handled": the listener ran).
MessageEvent(origin, data, state) == [origin |-> origin, data |-> data, state |-> state]
NoMessage == MessageEvent(OpaqueOrigin, Primitive, "none")

\* The origins and payloads the page's frames send.
Origins ==
  { PageOrigin,
    Origin("https", <<"notice", "sp-prod", "net">>),
    Origin("https", <<"cdn", "notice", "sp-prod", "net">>),
    Origin("https", <<"evilnotice", "sp-prod", "net">>),
    Origin("https", <<"evil", "example">>),
    Origin("https", <<"notice", "sp-prod", "net", "evil", "example">>),
    OpaqueOrigin }

Payloads ==
  { Primitive,
    Obj("null", [k \in {"name"} |-> StrVal(StrHideMessage)]),
    Obj("null", [k \in {"name"} |-> StrVal(StrShowMessage)]),
    Obj("null", [k \in {"name"} |-> StrVal(StrReadyForPreload)]),
    Obj("null", [k \in {"name"} |-> StrVal(StrHideMessageMarkup)]),
    Obj("null", [k \in {"name"} |-> StrVal(StrOther)]),
    Obj("Object", [k \in {"name"} |-> StrVal(StrHideMessage)]),
    Obj("Object", [k \in {"name"} |-> StrVal(StrShowMessage)]),
    Obj("null", [k \in {"name", "type"} |->
                   IF k = "name" THEN StrVal(StrShowMessage) ELSE StrVal(StrSpChoice)]),
    Obj("null", [k \in {"name", "source"} |->
                   IF k = "name" THEN StrVal(StrHideMessage) ELSE StrVal(StrCookieDecliner)]),
    Obj("null", [k \in {"name", "__proto__"} |->
                   IF k = "name" THEN StrVal(StrHideMessage) ELSE Undefined]),
    Obj("null", [k \in {"name", "choice"} |->
                   IF k = "name" THEN StrVal(StrShowMessage) ELSE NumVal(11)]),
    Obj("null", [k \in {"name", "constructor"} |->
                   IF k = "name" THEN StrVal(StrHideMessage) ELSE ObjVal]),
    Obj("null", [k \in {"name", "prototype"} |->
                   IF k = "name" THEN StrVal(StrShowMessage) ELSE ObjVal]),
    [Obj("null", [k \in {"name", "self"} |->
                    IF k = "name" THEN StrVal(StrHideMessage) ELSE ObjVal])
       EXCEPT !.cyclic = TRUE],
    [Obj("null", [k \in {"name"} |-> StrVal(StrShowMessage)]) EXCEPT !.sealed = TRUE] }
    \cup OutboundMessages

\* The message listener, lines 114-127, with handleSourcePointMessage: what
\* it does to the orchestrator and to APIHandler.
Listener(origin, data) ==
  LET act == onMessage(origin, data)
  IN IF act = "hide"
     THEN /\ markConsentProcessed
          /\ timers' = timers
          /\ lastOp' = Op({"hideMessage"}, "none")
          /\ UNCHANGED <<lastDeclineAttempt, declineAttemptCount, pingPending, vendorDeclines>>
     ELSE /\ UNCHANGED <<consentProcessed, observer>>
          /\ IF act = "show"
             THEN NoDecline(timers (+) One("showMessage", 0), Idle)
             ELSE NoDecline(timers, Idle)

\* A frame posts a message and the listener runs on it.
Message(origin, data) ==
  /\ pc = "running"
  /\ events < MaxEvents
  /\ events' = events + 1
  /\ Listener(origin, data)
  /\ UNCHANGED <<pc, now, tcfVars, processed, processedIframes, envVars, clicks>>

\* --- messages to iframes (tryIframeCommunication, getIframeTargetOrigin) ------
\* iframe.src: absent, a string new URL() rejects, or a URL.
Url(scheme, host) == [present |-> TRUE, parses |-> TRUE, scheme |-> scheme, host |-> host]
NoSrc == [present |-> FALSE, parses |-> FALSE, scheme |-> "", host |-> <<>>]
InvalidSrc == [present |-> TRUE, parses |-> FALSE, scheme |-> "", host |-> <<>>]

\* URL.origin: scheme and host for http(s), the opaque origin "null" otherwise.
urlOrigin(url) ==
  IF url.scheme \in {"http", "https"} THEN Origin(url.scheme, url.host) ELSE OpaqueOrigin

\* The iframes a page can hold that tryIframeCommunication's filter matches,
\* each with its src and the messageId extracted from its src or id.
IframeKinds ==
  << [src |-> Url("https", <<"cdn", "notice", "sp-prod", "net">>), messageId |-> StrVal(StrMessageId)],
     [src |-> Url("https", <<"notice", "sp-prod", "net">>), messageId |-> Undefined],
     [src |-> NoSrc, messageId |-> StrVal(StrMessageId)],
     [src |-> Url("https", <<"cmp", "evil", "example">>), messageId |-> Undefined],
     [src |-> Url("http", <<"notice", "sp-prod", "net", "evil", "example">>), messageId |-> Undefined],
     [src |-> InvalidSrc, messageId |-> Undefined],
     [src |-> Url("foo", <<"notice", "sp-prod", "net">>), messageId |-> StrVal(StrMessageId)] >>
AllIframes == 1..Len(IframeKinds)
iframeKind(f) == IframeKinds[((f - 1) % Len(IframeKinds)) + 1]

SourcePointOrigin == Origin("https", <<"sourcepoint", "mgr", "consensu", "org">>)

\* getIframeTargetOrigin with the isTrusted test of lines 405-412 left out.
getIframeOriginUnvalidated(f) ==
  LET src == iframeKind(f).src
  IN IF src.present /\ src.parses THEN urlOrigin(src) ELSE SourcePointOrigin

getIframeTargetOrigin(f) ==
  LET src == iframeKind(f).src
  IN IF /\ src.present
        /\ src.parses
        /\ \E domain \in trustedDomains :
             src.host = domain \/ endsWithDomain(src.host, domain)
     THEN urlOrigin(src)
     ELSE SourcePointOrigin

\* The messages the delayed send posts to iframe f, lines 353-377: none if
\* the iframe has no contentWindow, or if postMessage throws because the
\* target origin is not a URL (the catch of line 374).
posted(f) ==
  LET targetOrigin == getIframeTargetOrigin(f)
      messageId == iframeKind(f).messageId
  IN IF f \in iframes /\ targetOrigin.parses
     THEN { [to |-> f, target |-> targetOrigin, data |-> data] :
              data \in {declineMessage(messageId), choiceSelectMessage(messageId)} }
     ELSE {}

\* The delayed send of tryIframeCommunication, lines 353-377.
IframePostTimer ==
  /\ pc \in {"running", "api"}
  /\ \E t \in Pending("iframePost") :
       NoDecline(Without(t),
                 [Op(IF posted(t.arg) # {} THEN {"postMessage"} ELSE {}, "none")
                    EXCEPT !.sent = posted(t.arg)])
  /\ UNCHANGED <<pc, now, tcfVars, cdVars, envVars, events, clicks>>

\* A frame posts a message: the event is queued for the listener.
PostMessage(origin, data) ==
  /\ pc = "running"
  /\ inbox.state # "queued"
  /\ events < MaxEvents
  /\ events' = events + 1
  /\ inbox' = MessageEvent(origin, data, "queued")
  /\ NoDecline(timers, Idle)
  /\ UNCHANGED <<pc, now, tcfVars, cdVars, tcfapi, sp, isTop, dom, iframes, tcData, tcfThrows, domCall, clicks>>

\* The listener runs on the queued event.
Deliver ==
  /\ pc = "running"
  /\ inbox.state = "queued"
  /\ inbox' = [inbox EXCEPT !.state = "handled"]
  /\ Listener(inbox.origin, inbox.data)
  /\ UNCHANGED <<pc, now, tcfVars, processed, processedIframes, tcfapi, sp, isTop, dom,
                 iframes, tcData, tcfThrows, domCall, events, clicks>>

\* --- the page and the vendors -------------------------------------------------
\* The page inserts nodes: possibly a candidate element e (e = 0: none),
\* `relevant` being DOMUtils.hasCookieContent of the added nodes.  The
\* observer callback (lines 85-105) runs if the observer is connected.
AddNodes(e, status, relevant) ==
  /\ pc = "running"
  /\ events < MaxEvents
  /\ events' = events + 1
  /\ IF e = 0 THEN UNCHANGED dom
     ELSE /\ dom[e] = "absent"
          /\ dom' = [dom EXCEPT ![e] = status]
  /\ IF observer = "connected" /\ ~(consentProcessed \/ apiConsentProcessed) /\ relevant
     THEN NoDecline(timers (+) One("rescan", 0), Idle)
     ELSE NoDecline(timers, Idle)
  /\ UNCHANGED <<pc, now, tcfVars, cdVars, tcfapi, sp, isTop, iframes, inbox, tcData, tcfThrows, domCall, clicks>>

\* An observer callback that takes the removed nodes for content and does
\* not ask whether consent is processed.
RemoveNodesRescans(e) ==
  /\ pc = "running"
  /\ events < MaxEvents
  /\ events' = events + 1
  /\ dom[e] # "absent"
  /\ dom' = [dom EXCEPT ![e] = "absent"]
  /\ IF observer = "connected"
     THEN NoDecline(timers (+) One("rescan", 0), Idle)
     ELSE NoDecline(timers, Idle)
  /\ UNCHANGED <<pc, now, tcfVars, cdVars, tcfapi, sp, isTop, iframes, inbox, tcData, tcfThrows, domCall, clicks>>

\* The page removes the candidate element e.  The observer callback (lines
\* 85-105), if it runs at all, returns at the processed check or finds no
\* added node in the mutation: hasCookieContent([]) is false.
RemoveNodes(e) ==
  /\ pc = "running"
  /\ events < MaxEvents
  /\ events' = events + 1
  /\ dom[e] # "absent"
  /\ dom' = [dom EXCEPT ![e] = "absent"]
  /\ NoDecline(timers, Idle)
  /\ UNCHANGED <<pc, now, tcfVars, cdVars, tcfapi, sp, isTop, iframes, inbox, tcData, tcfThrows, domCall, clicks>>

\* The vendor's TCF stub gets installed.
TcfApiLoads ==
  /\ pc = "running"
  /\ ~tcfapi
  /\ events < MaxEvents
  /\ events' = events + 1
  /\ tcfapi' = TRUE
  /\ NoDecline(timers, Idle)
  /\ UNCHANGED <<pc, now, tcfVars, cdVars, sp, isTop, dom, iframes, inbox, tcData, tcfThrows, domCall, clicks>>

\* A SourcePoint iframe is inserted.
IframeInserted(f) ==
  /\ pc = "running"
  /\ f \notin iframes
  /\ events < MaxEvents
  /\ events' = events + 1
  /\ iframes' = iframes \cup {f}
  /\ NoDecline(timers, Idle)
  /\ UNCHANGED <<pc, now, tcfVars, cdVars, tcfapi, sp, isTop, dom, inbox, tcData, tcfThrows, domCall, clicks>>

\* The load event of an iframe that carries the listener of line 282.
IframeLoadEvent(f) ==
  /\ pc = "running"
  /\ f \in iframes
  /\ f \in processedIframes
  /\ events < MaxEvents
  /\ events' = events + 1
  /\ NoDecline(timers (+) One("iframeLoad", f), Idle)
  /\ UNCHANGED <<pc, now, tcfVars, cdVars, envVars, clicks>>

\* Time passes.
Tick ==
  /\ pc \in {"running", "api"}
  /\ LET step == IF pc = "api" THEN ApiTickMs ELSE TickMs
         horizon == IF pc = "api" THEN MaxApiTicks ELSE MaxTicks
     IN /\ now + step <= StartTime + step * horizon
        /\ now' = now + step
  /\ lastOp' = Idle
  /\ UNCHANGED <<pc, apiConsentProcessed, lastDeclineAttempt, declineAttemptCount,
                 cdVars, tcfVars, timers, pingPending, envVars, events, clicks, vendorDeclines>>

\* ---------------------------------------------------------------------------
\* The content script on one page
\* ---------------------------------------------------------------------------
Fresh ==
  /\ now = StartTime
  /\ apiConsentProcessed = FALSE
  /\ lastDeclineAttempt = 0
  /\ declineAttemptCount = 0
  /\ consentProcessed = FALSE
  /\ processed = {}
  /\ observer = "null"
  /\ processedIframes = {}
  /\ tcfCheckCount = 0
  /\ timers = EmptyBag
  /\ getTCDataPending = FALSE
  /\ tcfListener = FALSE
  /\ pingPending = 0
  /\ bulkPending = 0
  /\ events = 0
  /\ clicks = 0
  /\ vendorDeclines = 0
  /\ lastOp = Idle
  /\ inbox = NoMessage
  /\ tcData = NoTCData

\* The top frame of a page at the moment the content script is constructed:
\* each candidate is either missing or an eligible control, no SourcePoint
\* iframe is there yet; hidden or unrelated candidates and iframes arrive with
\* later insertions (a candidate that is not eligible is passed over by
\* processElement exactly as a missing one is).
Init ==
  /\ Fresh
  /\ tcfThrows = {}
  /\ domCall = NoDomCall
  /\ pc = "checkTCF"
  /\ tcfapi \in BOOLEAN
  /\ sp \in SpShapes
  /\ isTop = TRUE
  /\ dom \in [Elements -> {"absent", "eligible"}]
  /\ iframes = {}

Next ==
  \/ CheckTCF
  \/ CheckSP
  \/ InitialScan
  \/ SetupMutationObserver
  \/ SetupPostMessageListener
  \/ \E success \in BOOLEAN, eventStatus \in TCFEventStatus, cmpStatus \in TCFCmpStatus :
       GetTCDataCallback(success, eventStatus, cmpStatus)
  \/ \E success \in BOOLEAN, eventStatus \in TCFEventStatus :
       TCFEventCallback(success, eventStatus)
  \/ \E success \in BOOLEAN, cmpLoaded \in BOOLEAN : PingCallback(success, cmpLoaded)
  \/ \E success \in BOOLEAN : BulkDeclineCallback(success)
  \/ TcfChecker
  \/ RescanTimer
  \/ ShowMessageTimer
  \/ IframeCheckTimer
  \/ IframeLoadTimer
  \/ IframePostTimer
  \/ \E origin \in Origins, data \in Payloads : Message(origin, data)
  \/ \E e \in Elements \cup {0}, status \in ElemStatus \ {"absent"}, relevant \in BOOLEAN :
       AddNodes(e, status, relevant)
  \/ TcfApiLoads
  \/ \E f \in Iframes : IframeInserted(f)
  \/ \E f \in Iframes : IframeLoadEvent(f)
  \/ Tick

Spec == Init /\ [][Next]_vars

\* ---------------------------------------------------------------------------
\* APIHandler driven through its static methods by any caller
\* ---------------------------------------------------------------------------
CallDeclineAllConsent ==
  /\ pc = "api"
  /\ declineAllConsent(timers)
  /\ UNCHANGED <<pc, now, tcfVars, cdVars, envVars, events, clicks>>

CallSetConsentProcessed(processedArg) ==
  /\ pc = "api"
  /\ setConsentProcessed(processedArg)
  /\ lastOp' = Idle
  /\ UNCHANGED <<pc, now, lastDeclineAttempt, declineAttemptCount, pingPending, timers,
                 vendorDeclines, tcfVars, cdVars, envVars, events, clicks>>

CallHandleTCFAPI ==
  /\ pc = "api"
  /\ handleTCFAPI
  /\ NoDecline(timers, Idle)
  /\ UNCHANGED <<pc, now, tcfCheckCount, bulkPending, cdVars, envVars, events, clicks>>

CallHandleSourcePointAPI ==
  /\ pc = "api"
  /\ handleSourcePointAPI
  /\ UNCHANGED <<pc, now, lastDeclineAttempt, declineAttemptCount, pingPending, timers,
                 tcfVars, cdVars, envVars, events, clicks>>

\* The static method keyed by SECURE_RESET_SYMBOL, lines 18-21.
SecureReset ==
  /\ pc = "api"
  /\ events < MaxEvents
  /\ events' = events + 1
  /\ lastDeclineAttempt' = 0
  /\ declineAttemptCount' = 0
  /\ lastOp' = Idle
  /\ UNCHANGED <<pc, now, apiConsentProcessed, pingPending, timers, vendorDeclines,
                 tcfVars, cdVars, envVars, clicks>>

InitAPI ==
  /\ Fresh
  /\ tcfThrows = {}
  /\ domCall = NoDomCall
  /\ pc = "api"
  /\ tcfapi \in BOOLEAN
  /\ sp \in SpShapes
  /\ isTop = TRUE
  /\ dom = [e \in Elements |-> "absent"]
  /\ iframes \in SUBSET Iframes

NextAPI ==
  \/ CallDeclineAllConsent
  \/ \E processedArg \in BOOLEAN : CallSetConsentProcessed(processedArg)
  \/ CallHandleSourcePointAPI
  \/ \E success \in BOOLEAN, cmpLoaded \in BOOLEAN : PingCallback(success, cmpLoaded)
  \/ \E success \in BOOLEAN : BulkDeclineCallback(success)
  \/ IframePostTimer
  \/ Tick

SpecAPI == InitAPI /\ [][NextAPI]_vars

\* The operations on the rate limiter's state that APIHandler exposes, on a
\* page without a TCF entry point.
InitExposed ==
  /\ Fresh
  /\ tcfThrows = {}
  /\ domCall = NoDomCall
  /\ pc = "api"
  /\ tcfapi = FALSE
  /\ sp \in SpShapes
  /\ isTop = TRUE
  /\ dom = [e \in Elements |-> "absent"]
  /\ iframes \in SUBSET Iframes

NextExposed ==
  \/ CallDeclineAllConsent
  \/ \E processedArg \in BOOLEAN : CallSetConsentProcessed(processedArg)
  \/ SecureReset
  \/ IframePostTimer
  \/ Tick

SpecExposed == InitExposed /\ [][NextExposed]_vars

\* ---------------------------------------------------------------------------
\* The message listener on a quiet page
\* ---------------------------------------------------------------------------
\* The orchestrator some seconds after init() on a top frame without TCF entry
\* point and without decline button: the observer is connected, waitForTCFAPI
\* has given up, the periodic iframe checks have run over the iframes present.
InitMessages ==
  /\ pc = "running"
  /\ now = StartTime
  /\ apiConsentProcessed = FALSE
  /\ lastDeclineAttempt = 0
  /\ declineAttemptCount = 0
  /\ consentProcessed = FALSE
  /\ processed = {}
  /\ observer = "connected"
  /\ iframes \in SUBSET Iframes
  /\ processedIframes = iframes
  /\ tcfCheckCount = 3
  /\ timers = EmptyBag
  /\ getTCDataPending = FALSE
  /\ tcfListener = FALSE
  /\ pingPending = 0
  /\ bulkPending = 0
  /\ tcfapi = FALSE
  /\ sp \in SpShapes
  /\ isTop = TRUE
  /\ dom = [e \in Elements |-> "absent"]
  /\ events = 0
  /\ clicks = 0
  /\ vendorDeclines = 0
  /\ lastOp = Idle
  /\ inbox = NoMessage
  /\ tcData = NoTCData
  /\ tcfThrows = {}
  /\ domCall = NoDomCall

NextMessages ==
  \/ \E origin \in Origins, data \in Payloads : PostMessage(origin, data)
  \/ Deliver
  \/ ShowMessageTimer
  \/ IframePostTimer
  \/ Tick

SpecMessages == InitMessages /\ [][NextMessages]_vars

\* ---------------------------------------------------------------------------
\* declineAllConsent on pages that hold consent iframes
\* ---------------------------------------------------------------------------
InitIframes ==
  /\ Fresh
  /\ tcfThrows = {}
  /\ domCall = NoDomCall
  /\ pc = "api"
  /\ tcfapi = FALSE
  /\ sp \in SpShapes
  /\ isTop = TRUE
  /\ dom = [e \in Elements |-> "absent"]
  /\ iframes \in {S \in SUBSET AllIframes : Cardinality(S) \in 1..MaxPageIframes}

NextIframes ==
  \/ CallDeclineAllConsent
  \/ IframePostTimer
  \/ Tick

SpecIframes == InitIframes /\ [][NextIframes]_vars

\* ---------------------------------------------------------------------------
\* The wait for the TCF entry point, in a top frame or in an iframe
\* ---------------------------------------------------------------------------
InitProbe ==
  /\ Fresh
  /\ tcfThrows = {}
  /\ domCall = NoDomCall
  /\ pc = "checkTCF"
  /\ tcfapi \in BOOLEAN
  /\ sp \in SpShapes
  /\ isTop \in BOOLEAN
  /\ dom \in [Elements -> {"absent", "eligible"}]
  /\ iframes = {}

NextProbe ==
  \/ CheckTCF
  \/ CheckSP
  \/ InitialScan
  \/ SetupMutationObserver
  \/ SetupPostMessageListener
  \/ TcfChecker
  \/ TcfApiLoads
  \/ IframeCheckTimer
  \/ Tick

SpecProbe == InitProbe /\ [][NextProbe]_vars

\* ---------------------------------------------------------------------------
\* The TCF bridge on a page with a TCF entry point
\* ---------------------------------------------------------------------------
InitTCF ==
  /\ Fresh
  /\ tcfThrows = {}
  /\ domCall = NoDomCall
  /\ pc = "api"
  /\ tcfapi = TRUE
  /\ sp \in SpShapes
  /\ isTop = TRUE
  /\ dom = [e \in Elements |-> "absent"]
  /\ iframes = {}

NextTCF ==
  \/ CallHandleTCFAPI
  \/ \E success \in BOOLEAN, eventStatus \in TCFEventStatus, cmpStatus \in TCFCmpStatus :
       ReportTCData(success, eventStatus, cmpStatus)
  \/ DeliverTCData
  \/ \E success \in BOOLEAN, cmpLoaded \in BOOLEAN : PingCallback(success, cmpLoaded)
  \/ \E success \in BOOLEAN : BulkDeclineCallback(success)
  \/ Tick

SpecTCF == InitTCF /\ [][NextTCF]_vars

\* ---------------------------------------------------------------------------
\* The bridge on a page whose vendor entry points may throw
\* ---------------------------------------------------------------------------
InitThrow ==
  /\ Fresh
  /\ tcfThrows \in SUBSET TCFCommands
  /\ domCall = NoDomCall
  /\ pc = "api"
  /\ tcfapi \in BOOLEAN
  /\ sp \in SpShapes
  /\ isTop = TRUE
  /\ dom = [e \in Elements |-> "absent"]
  /\ iframes = {}

NextThrow ==
  \/ CallHandleTCFAPI
  \/ CallHandleSourcePointAPI
  \/ CallDeclineAllConsent
  \/ \E success \in BOOLEAN, eventStatus \in TCFEventStatus, cmpStatus \in TCFCmpStatus :
       GetTCDataCallback(success, eventStatus, cmpStatus)
  \/ \E success \in BOOLEAN, eventStatus \in TCFEventStatus : TCFEventCallback(success, eventStatus)
  \/ \E success \in BOOLEAN, cmpLoaded \in BOOLEAN : PingCallback(success, cmpLoaded)
  \/ \E success \in BOOLEAN : BulkDeclineCallback(success)
  \/ Tick

SpecThrow == InitThrow /\ [][NextThrow]_vars

\* ---------------------------------------------------------------------------
\* The scans of a page without vendor API
\* ---------------------------------------------------------------------------
InitScan ==
  /\ Fresh
  /\ tcfThrows = {}
  /\ domCall = NoDomCall
  /\ pc = "checkTCF"
  /\ tcfapi = FALSE
  /\ sp = NoSP
  /\ isTop \in BOOLEAN
  /\ dom \in [Elements -> ScanStatus]
  /\ iframes = {}

NextScan ==
  \/ CheckTCF
  \/ CheckSP
  \/ InitialScan
  \/ SetupMutationObserver
  \/ SetupPostMessageListener
  \/ \E e \in Elements \cup {0}, status \in ScanStatus \ {"absent"}, relevant \in BOOLEAN :
       AddNodes(e, status, relevant)
  \/ \E e \in Elements : RemoveNodes(e)
  \/ RescanTimer
  \/ TcfChecker
  \/ IframeCheckTimer

SpecScan == InitScan /\ [][NextScan]_vars

\* ---------------------------------------------------------------------------
\* DOMUtils (src/src/dom-utils.ts): calls on given documents
\* ---------------------------------------------------------------------------
\* The state of a script whose DOMUtils functions are called on their own.
Detached ==
  /\ Fresh
  /\ tcfThrows = {}
  /\ pc = "api"
  /\ tcfapi = FALSE
  /\ sp = NoSP
  /\ isTop = TRUE
  /\ dom = [e \in Elements |-> "absent"]
  /\ iframes = {}

\* Texts are sequences of characters; String.prototype.toLowerCase and
\* String.prototype.includes on them.
TextChars == {"r", "R", "x"}
Texts == UNION {[1..n -> TextChars] : n \in 0..MaxTextLen}
\* String.prototype.toLowerCase, character by character ("aring" and "oslash"
\* stand for the letters of the Norwegian keywords).
UpperCase == <<"A", "B", "C", "D", "E", "F", "G", "H", "I", "J", "K", "L", "M", "N", "O", "P", "Q", "R", "S", "T", "U", "V", "W", "X", "Y", "Z">>
LowerCase == <<"a", "b", "c", "d", "e", "f", "g", "h", "i", "j", "k", "l", "m", "n", "o", "p", "q", "r", "s", "t", "u", "v", "w", "x", "y", "z">>
toLowerCase(str) ==
  [i \in 1..Len(str) |->
     IF \E k \in 1..Len(UpperCase) : UpperCase[k] = str[i]
     THEN LowerCase[CHOOSE k \in 1..Len(UpperCase) : UpperCase[k] = str[i]]
     ELSE str[i]]
includes(str, part) ==
  \E i \in 1..(Len(str) + 1) :
    /\ i + Len(part) - 1 <= Len(str)
    /\ SubSeq(str, i, i + Len(part) - 1) = part

\* A document: its elements in document order, each with its tag and its
\* textContent.
Tags == {"button", "div"}
Documents == UNION {[1..n -> [tag : Tags, textContent : Texts]] : n \in 1..MaxDocElems}

\* A rule of the catalog: what is written before :contains (the empty string
\* if nothing is), whether :contains(...) is there and its argument quoted,
\* and the argument.
Selector(scope, pseudo, text) == [scope |-> scope, pseudo |-> pseudo, text |-> text]
Scopes == {"", "*", "button", "div", "[["}
Selectors ==
  {Selector(scope, "none", <<>>) : scope \in Scopes \ {""}}
    \cup {Selector(scope, pseudo, text) :
            scope \in Scopes, pseudo \in {"quoted", "bare"}, text \in Texts}

\* The outcome of a call: the elements returned (positions in the document),
\* or the exception thrown to the caller.
Returned(elements) == [threw |-> FALSE, elements |-> elements]
Threw == [threw |-> TRUE, elements |-> {}]

\* --- the catalog (src/src/selectors.ts) ----------------------------------------
\* LANGUAGE_CONFIGS.flatMap(lang => lang.selectors): Norwegian, English,
\* German, French, in this order.
LANGUAGE_CONFIGS ==
  << Selector("button", "quoted", <<"A", "v", "v", "i", "s", " ", "a", "l", "l", "e">>),
     Selector("button", "quoted", <<"T", "i", "l", "p", "a", "s", "s", " ", "e", "l", "l", "e", "r", " ", "a", "v", "v", "i", "s">>),
     Selector("button", "quoted", <<"A", "v", "v", "i", "s", " ", "a", "l", "l", "e", " ", "c", "o", "o", "k", "i", "e", "s">>),
     Selector("button", "quoted", <<"A", "v", "s", "l", "aring", " ", "a", "l", "l", "e", " ", "c", "o", "o", "k", "i", "e", "s">>),
     Selector("button", "quoted", <<"A", "v", "s", "l", "aring", " ", "a", "l", "l", "e">>),
     Selector("button", "quoted", <<"N", "oslash", "d", "v", "e", "n", "d", "i", "g", "e", " ", "k", "u", "n">>),
     Selector("button", "quoted", <<"K", "u", "n", " ", "n", "oslash", "d", "v", "e", "n", "d", "i", "g", "e">>),
     Selector("button", "quoted", <<"I", "k", "k", "e", " ", "t", "i", "l", "l", "a", "t">>),
     Selector("button", "quoted", <<"A", "d", "m", "i", "n", "i", "s", "t", "r", "e", "r", " ", "i", "n", "n", "s", "t", "i", "l", "l", "i", "n", "g", "e", "r">>),
     Selector("button", "quoted", <<"D", "e", "c", "l", "i", "n", "e", " ", "a", "l", "l", " ", "c", "o", "o", "k", "i", "e", "s">>),
     Selector("button", "quoted", <<"R", "e", "j", "e", "c", "t", " ", "a", "l", "l", " ", "c", "o", "o", "k", "i", "e", "s">>),
     Selector("button", "quoted", <<"D", "e", "n", "y", " ", "a", "l", "l", " ", "c", "o", "o", "k", "i", "e", "s">>),
     Selector("button", "quoted", <<"D", "e", "c", "l", "i", "n", "e", " ", "a", "l", "l">>),
     Selector("button", "quoted", <<"R", "e", "j", "e", "c", "t", " ", "a", "l", "l">>),
     Selector("button", "quoted", <<"D", "e", "n", "y", " ", "a", "l", "l">>),
     Selector("button", "quoted", <<"E", "s", "s", "e", "n", "t", "i", "a", "l", " ", "o", "n", "l", "y">>),
     Selector("button", "quoted", <<"N", "e", "c", "e", "s", "s", "a", "r", "y", " ", "o", "n", "l", "y">>),
     Selector("button", "quoted", <<"M", "a", "n", "a", "g", "e", " ", "p", "r", "e", "f", "e", "r", "e", "n", "c", "e", "s">>),
     Selector("button", "quoted", <<"A", "l", "l", "e", " ", "a", "b", "l", "e", "h", "n", "e", "n">>),
     Selector("button", "quoted", <<"A", "l", "l", "e", " ", "C", "o", "o", "k", "i", "e", "s", " ", "a", "b", "l", "e", "h", "n", "e", "n">>),
     Selector("button", "quoted", <<"N", "u", "r", " ", "e", "r", "f", "o", "r", "d", "e", "r", "l", "i", "c", "h", "e">>),
     Selector("button", "quoted", <<"E", "i", "n", "s", "t", "e", "l", "l", "u", "n", "g", "e", "n", " ", "v", "e", "r", "w", "a", "l", "t", "e", "n">>),
     Selector("button", "quoted", <<"T", "o", "u", "t", " ", "r", "e", "f", "u", "s", "e", "r">>),
     Selector("button", "quoted", <<"R", "e", "f", "u", "s", "e", "r", " ", "t", "o", "u", "s", " ", "l", "e", "s", " ", "c", "o", "o", "k", "i", "e", "s">>),
     Selector("button", "quoted", <<"E", "s", "s", "e", "n", "t", "i", "e", "l", "s", " ", "u", "n", "i", "q", "u", "e", "m", "e", "n", "t">>),
     Selector("button", "quoted", <<"G", "eacute", "r", "e", "r", " ", "l", "e", "s", " ", "p", "r", "eacute", "f", "eacute", "r", "e", "n", "c", "e", "s">>) >>

\* The selector strings of FRAMEWORK_SELECTORS: by attribute, class or id.
FrameworkScopes ==
  << "button[title*=\"Avvis\"]",
     "button[aria-label*=\"Avvis\"]",
     "button[title*=\"Reject\"]",
     "button[aria-label*=\"Reject\"]",
     ".sp_choice_type_11",
     ".sp_choice_type_12",
     "button.sp_choice_type_11",
     "#CybotCookiebotDialogBodyButtonDecline",
     ".ot-pc-refuse-all-handler",
     "[data-testid=\"uc-deny-all-button\"]",
     "[data-testid=\"cookie-banner-decline\"]",
     "button[data-testid*=\"cookie\"][data-testid*=\"decline\"]:not([data-testid*=\"signin\"]):not([data-testid*=\"login\"])",
     "button[data-testid*=\"cookie\"][data-testid*=\"reject\"]:not([data-testid*=\"signin\"]):not([data-testid*=\"login\"])",
     "button[id*=\"cookie\"][id*=\"decline\"]",
     "button[class*=\"cookie\"][class*=\"decline\"]",
     "button[class*=\"cookie\"][class*=\"reject\"]" >>
FRAMEWORK_SELECTORS == [k \in DOMAIN FrameworkScopes |-> Selector(FrameworkScopes[k], "none", <<>>)]

getAllDeclineSelectors == LANGUAGE_CONFIGS \o FRAMEWORK_SELECTORS

\* The description of every rule, in the order of the rules.
LanguageDescriptions ==
  << <<"N", "o", "r", "w", "e", "g", "i", "a", "n", ":", " ", "R", "e", "j", "e", "c", "t", " ", "a", "l", "l">>,
     <<"N", "o", "r", "w", "e", "g", "i", "a", "n", ":", " ", "C", "u", "s", "t", "o", "m", "i", "z", "e", " ", "o", "r", " ", "r", "e", "j", "e", "c", "t">>,
     <<"N", "o", "r", "w", "e", "g", "i", "a", "n", ":", " ", "R", "e", "j", "e", "c", "t", " ", "a", "l", "l", " ", "c", "o", "o", "k", "i", "e", "s">>,
     <<"N", "o", "r", "w", "e", "g", "i", "a", "n", ":", " ", "D", "e", "c", "l", "i", "n", "e", " ", "a", "l", "l", " ", "c", "o", "o", "k", "i", "e", "s">>,
     <<"N", "o", "r", "w", "e", "g", "i", "a", "n", ":", " ", "D", "e", "c", "l", "i", "n", "e", " ", "a", "l", "l">>,
     <<"N", "o", "r", "w", "e", "g", "i", "a", "n", ":", " ", "E", "s", "s", "e", "n", "t", "i", "a", "l", " ", "o", "n", "l", "y">>,
     <<"N", "o", "r", "w", "e", "g", "i", "a", "n", ":", " ", "O", "n", "l", "y", " ", "e", "s", "s", "e", "n", "t", "i", "a", "l">>,
     <<"N", "o", "r", "w", "e", "g", "i", "a", "n", ":", " ", "D", "o", "n", "'", "t", " ", "a", "l", "l", "o", "w">>,
     <<"N", "o", "r", "w", "e", "g", "i", "a", "n", ":", " ", "M", "a", "n", "a", "g", "e", " ", "s", "e", "t", "t", "i", "n", "g", "s">>,
     <<"E", "n", "g", "l", "i", "s", "h", ":", " ", "D", "e", "c", "l", "i", "n", "e", " ", "a", "l", "l", " ", "c", "o", "o", "k", "i", "e", "s">>,
     <<"E", "n", "g", "l", "i", "s", "h", ":", " ", "R", "e", "j", "e", "c", "t", " ", "a", "l", "l", " ", "c", "o", "o", "k", "i", "e", "s">>,
     <<"E", "n", "g", "l", "i", "s", "h", ":", " ", "D", "e", "n", "y", " ", "a", "l", "l", " ", "c", "o", "o", "k", "i", "e", "s">>,
     <<"E", "n", "g", "l", "i", "s", "h", ":", " ", "D", "e", "c", "l", "i", "n", "e", " ", "a", "l", "l">>,
     <<"E", "n", "g", "l", "i", "s", "h", ":", " ", "R", "e", "j", "e", "c", "t", " ", "a", "l", "l">>,
     <<"E", "n", "g", "l", "i", "s", "h", ":", " ", "D", "e", "n", "y", " ", "a", "l", "l">>,
     <<"E", "n", "g", "l", "i", "s", "h", ":", " ", "E", "s", "s", "e", "n", "t", "i", "a", "l", " ", "o", "n", "l", "y">>,
     <<"E", "n", "g", "l", "i", "s", "h", ":", " ", "N", "e", "c", "e", "s", "s", "a", "r", "y", " ", "o", "n", "l", "y">>,
     <<"E", "n", "g", "l", "i", "s", "h", ":", " ", "M", "a", "n", "a", "g", "e", " ", "p", "r", "e", "f", "e", "r", "e", "n", "c", "e", "s">>,
     <<"G", "e", "r", "m", "a", "n", ":", " ", "R", "e", "j", "e", "c", "t", " ", "a", "l", "l">>,
     <<"G", "e", "r", "m", "a", "n", ":", " ", "R", "e", "j", "e", "c", "t", " ", "a", "l", "l", " ", "c", "o", "o", "k", "i", "e", "s">>,
     <<"G", "e", "r", "m", "a", "n", ":", " ", "O", "n", "l", "y", " ", "e", "s", "s", "e", "n", "t", "i", "a", "l">>,
     <<"G", "e", "r", "m", "a", "n", ":", " ", "M", "a", "n", "a", "g", "e", " ", "s", "e", "t", "t", "i", "n", "g", "s">>,
     <<"F", "r", "e", "n", "c", "h", ":", " ", "R", "e", "f", "u", "s", "e", " ", "a", "l", "l">>,
     <<"F", "r", "e", "n", "c", "h", ":", " ", "R", "e", "f", "u", "s", "e", " ", "a", "l", "l", " ", "c", "o", "o", "k", "i", "e", "s">>,
     <<"F", "r", "e", "n", "c", "h", ":", " ", "E", "s", "s", "e", "n", "t", "i", "a", "l", " ", "o", "n", "l", "y">>,
     <<"F", "r", "e", "n", "c", "h", ":", " ", "M", "a", "n", "a", "g", "e", " ", "p", "r", "e", "f", "e", "r", "e", "n", "c", "e", "s">> >>
FrameworkDescriptions ==
  << <<"S", "o", "u", "r", "c", "e", "P", "o", "i", "n", "t", ":", " ", "A", "v", "v", "i", "s", " ", "b", "u", "t", "t", "o", "n", " ", "(", "t", "i", "t", "l", "e", ")">>,
     <<"S", "o", "u", "r", "c", "e", "P", "o", "i", "n", "t", ":", " ", "A", "v", "v", "i", "s", " ", "b", "u", "t", "t", "o", "n", " ", "(", "a", "r", "i", "a", "-", "l", "a", "b", "e", "l", ")">>,
     <<"S", "o", "u", "r", "c", "e", "P", "o", "i", "n", "t", ":", " ", "R", "e", "j", "e", "c", "t", " ", "b", "u", "t", "t", "o", "n", " ", "(", "t", "i", "t", "l", "e", ")">>,
     <<"S", "o", "u", "r", "c", "e", "P", "o", "i", "n", "t", ":", " ", "R", "e", "j", "e", "c", "t", " ", "b", "u", "t", "t", "o", "n", " ", "(", "a", "r", "i", "a", "-", "l", "a", "b", "e", "l", ")">>,
     <<"S", "o", "u", "r", "c", "e", "P", "o", "i", "n", "t", ":", " ", "R", "e", "j", "e", "c", "t", " ", "a", "l", "l", " ", "b", "u", "t", "t", "o", "n">>,
     <<"S", "o", "u", "r", "c", "e", "P", "o", "i", "n", "t", ":", " ", "A", "c", "c", "e", "p", "t", " ", "a", "l", "l", " ", "b", "u", "t", "t", "o", "n">>,
     <<"S", "o", "u", "r", "c", "e", "P", "o", "i", "n", "t", ":", " ", "R", "e", "j", "e", "c", "t", " ", "b", "u", "t", "t", "o", "n", " ", "e", "l", "e", "m", "e", "n", "t">>,
     <<"C", "o", "o", "k", "i", "e", "b", "o", "t", ":", " ", "D", "e", "c", "l", "i", "n", "e">>,
     <<"O", "n", "e", "T", "r", "u", "s", "t", ":", " ", "R", "e", "f", "u", "s", "e", " ", "a", "l", "l">>,
     <<"U", "s", "e", "r", "c", "e", "n", "t", "r", "i", "c", "s", ":", " ", "D", "e", "n", "y", " ", "a", "l", "l">>,
     <<"G", "e", "n", "e", "r", "i", "c", " ", "c", "o", "o", "k", "i", "e", " ", "b", "a", "n", "n", "e", "r", " ", "d", "e", "c", "l", "i", "n", "e">>,
     <<"C", "o", "o", "k", "i", "e", " ", "d", "e", "c", "l", "i", "n", "e", " ", "(", "e", "x", "c", "l", "u", "d", "i", "n", "g", " ", "l", "o", "g", "i", "n", ")">>,
     <<"C", "o", "o", "k", "i", "e", " ", "r", "e", "j", "e", "c", "t", " ", "(", "e", "x", "c", "l", "u", "d", "i", "n", "g", " ", "l", "o", "g", "i", "n", ")">>,
     <<"C", "o", "o", "k", "i", "e", " ", "I", "D", " ", "d", "e", "c", "l", "i", "n", "e">>,
     <<"C", "o", "o", "k", "i", "e", " ", "c", "l", "a", "s", "s", " ", "d", "e", "c", "l", "i", "n", "e">>,
     <<"C", "o", "o", "k", "i", "e", " ", "c", "l", "a", "s", "s", " ", "r", "e", "j", "e", "c", "t">> >>
getAllDeclineDescriptions == LanguageDescriptions \o FrameworkDescriptions

\* The class attribute of an element of a document (empty where the
\* document gives none), and whether a class name is one of its tokens.
classOf(element) == IF "className" \in DOMAIN element THEN element.className ELSE <<>>
hasClass(element, name) ==
  LET cls == classOf(element)
  IN \E i \in 1..Len(cls) :
       /\ i + Len(name) - 1 <= Len(cls)
       /\ SubSeq(cls, i, i + Len(name) - 1) = name
       /\ i = 1 \/ cls[i - 1] = " "
       /\ i + Len(name) - 1 = Len(cls) \/ cls[i + Len(name)] = " "
StrSpChoiceType11 == <<"s", "p", "_", "c", "h", "o", "i", "c", "e", "_", "t", "y", "p", "e", "_", "1", "1">>
StrSpChoiceType12 == <<"s", "p", "_", "c", "h", "o", "i", "c", "e", "_", "t", "y", "p", "e", "_", "1", "2">>

\* document.querySelectorAll: a SyntaxError for the empty string and for
\* what is no selector.  The elements of the documents carry a tag and
\* possibly a class, no other attribute and no id: of the selectors of
\* FRAMEWORK_SELECTORS only those by SourcePoint class can find any.
querySelectorAll(doc, selector) ==
  CASE selector = "*" -> Returned(DOMAIN doc)
    [] selector \in Tags -> Returned({i \in DOMAIN doc : doc[i].tag = selector})
    [] selector = ".sp_choice_type_11" ->
         Returned({i \in DOMAIN doc : hasClass(doc[i], StrSpChoiceType11)})
    [] selector = ".sp_choice_type_12" ->
         Returned({i \in DOMAIN doc : hasClass(doc[i], StrSpChoiceType12)})
    [] selector = "button.sp_choice_type_11" ->
         Returned({i \in DOMAIN doc : doc[i].tag = "button" /\ hasClass(doc[i], StrSpChoiceType11)})
    [] selector \in {FrameworkScopes[k] : k \in DOMAIN FrameworkScopes}
                     \ {".sp_choice_type_11", ".sp_choice_type_12", "button.sp_choice_type_11"} ->
         Returned({})
    [] OTHER -> Threw

\* selector.match(/^(.*?):contains\(["'](.+?)["']\)(.*)$/): null, or the groups;
\* a group that took part in the match holds a string, the empty one included.
NoGroup == [t |-> "undefined", v |-> ""]
matchContains(selector) ==
  IF selector.pseudo = "quoted" /\ Len(selector.text) >= 1
  THEN [matched |-> TRUE, g1 |-> [t |-> "string", v |-> selector.scope], g2 |-> selector.text]
  ELSE [matched |-> FALSE, g1 |-> NoGroup, g2 |-> <<>>]

\* findElementsWithText, lines 27-38; the destructuring default applies to an
\* undefined group only.
findElementsWithText(doc, selector) ==
  LET match == matchContains(selector)
      baseSelector == IF match.g1 = NoGroup THEN "*" ELSE match.g1.v
      elements == querySelectorAll(doc, baseSelector)
  IN IF ~match.matched THEN Returned({})
     ELSE IF elements.threw THEN Threw
     ELSE Returned({i \in elements.elements :
                     includes(toLowerCase(doc[i].textContent), toLowerCase(match.g2))})

\* findElementsBySelector, lines 8-22: only querySelectorAll of a rule
\* without :contains is in the try block.
findElementsBySelector(doc, selector) ==
  IF selector.pseudo # "none"
  THEN findElementsWithText(doc, selector)
  ELSE LET elements == querySelectorAll(doc, selector.scope)
       IN IF elements.threw THEN Returned({}) ELSE elements

InitSelect ==
  /\ Detached
  /\ \E doc \in Documents, selector \in Selectors :
       domCall = DomCall("findElementsBySelector", [doc |-> doc, selector |-> selector],
                         FALSE, Returned({}))

FindElementsBySelector ==
  /\ domCall.fn = "findElementsBySelector"
  /\ ~domCall.made
  /\ domCall' = [domCall EXCEPT !.made = TRUE,
                                !.result = findElementsBySelector(domCall.input.doc,
                                                                  domCall.input.selector)]
  /\ lastOp' = Idle
  /\ UNCHANGED <<pc, now, apiConsentProcessed, lastDeclineAttempt, declineAttemptCount,
                 pingPending, timers, vendorDeclines, tcfVars, cdVars, tcfapi, sp, isTop,
                 dom, iframes, inbox, tcData, tcfThrows, events, clicks>>

NextSelect == FindElementsBySelector

SpecSelect == InitSelect /\ [][NextSelect]_vars

\* --- keywords (src/unnamed/part_009) and DOMUtils.isCookieRelatedButton ---------
EXCLUDE_KEYWORDS ==
  { <<"s", "i", "g", "n", "i", "n">>,
    <<"l", "o", "g", "i", "n">>,
    <<"a", "c", "c", "o", "u", "n", "t">>,
    <<"u", "s", "e", "r">>,
    <<"p", "r", "o", "f", "i", "l", "e">>,
    <<"m", "e", "m", "b", "e", "r", "s", "h", "i", "p">>,
    <<"l", "o", "y", "a", "l", "t", "y">>,
    <<"n", "e", "w", "s", "l", "e", "t", "t", "e", "r">>,
    <<"s", "u", "b", "s", "c", "r", "i", "b", "e">>,
    <<"r", "e", "g", "i", "s", "t", "e", "r">>,
    <<"c", "h", "e", "c", "k", "o", "u", "t">> }

COOKIE_KEYWORDS ==
  { <<"c", "o", "o", "k", "i", "e">>,
    <<"c", "o", "n", "s", "e", "n", "t">>,
    <<"p", "r", "i", "v", "a", "c", "y">>,
    <<"g", "d", "p", "r">>,
    <<"t", "r", "a", "c", "k", "i", "n", "g">>,
    <<"a", "n", "a", "l", "y", "t", "i", "c", "s">>,
    <<"d", "e", "c", "l", "i", "n", "e">>,
    <<"r", "e", "j", "e", "c", "t">>,
    <<"d", "e", "n", "y">>,
    <<"r", "e", "f", "u", "s", "e">>,
    <<"a", "v", "v", "i", "s">>,
    <<"a", "v", "s", "l", "aring">>,
    <<"p", "e", "r", "s", "o", "n", "v", "e", "r", "n">>,
    <<"s", "a", "m", "t", "y", "k", "k", "e">>,
    <<"c", "o", "o", "k", "i", "e", "i", "n", "n", "s", "t", "i", "l", "l", "i", "n", "g", "e", "r">>,
    <<"t", "i", "l", "p", "a", "s", "s">>,
    <<"n", "oslash", "d", "v", "e", "n", "d", "i", "g", "e">>,
    <<"i", "n", "n", "s", "t", "i", "l", "l", "i", "n", "g", "e", "r">>,
    <<"f", "l", "e", "r", "e">>,
    <<"c", "o", "m", "p", "l", "i", "a", "n", "z">>,
    <<"c", "m", "p", "l", "z">>,
    <<"i", "n", "f", "o", "r", "m", "a", "s", "j", "o", "n", "s", "k", "a", "p", "s", "l", "e", "r">>,
    <<"i", "d", "u", "n", "-", "c", "o", "n", "s", "e", "n", "t">>,
    <<"u", "s", "e", "r", "c", "e", "n", "t", "r", "i", "c", "s">>,
    <<"u", "c", "-">> }

\* COOKIE_CONTENT_KEYWORDS.norwegian.
COOKIE_CONTENT_KEYWORDS ==
  { <<"c", "o", "o", "k", "i", "e">>,
    <<"s", "a", "m", "t", "y", "k", "k", "e">>,
    <<"p", "e", "r", "s", "o", "n", "v", "e", "r", "n">>,
    <<"a", "v", "v", "i", "s">>,
    <<"g", "o", "d", "t", "a">>,
    <<"t", "i", "l", "p", "a", "s", "s">>,
    <<"c", "o", "o", "k", "i", "e", "i", "n", "n", "s", "t", "i", "l", "l", "i", "n", "g", "e", "r">>,
    <<"p", "e", "r", "s", "o", "n", "d", "a", "t", "a">>,
    <<"s", "p", "o", "r", "i", "n", "g", "s", "t", "e", "k", "n", "o", "l", "o", "g", "i">>,
    <<"n", "oslash", "d", "v", "e", "n", "d", "i", "g", "e">>,
    <<"i", "n", "n", "s", "t", "i", "l", "l", "i", "n", "g", "e", "r">>,
    <<"f", "l", "e", "r", "e">>,
    <<"p", "r", "o", "t", "e", "i", "n", "f", "a", "b", "r", "i", "k", "k", "e", "n">>,
    <<"g", "o", "d", "k", "j", "e", "n", "n">>,
    <<"l", "a", "g", "r", "e">>,
    <<"i", "n", "f", "o", "r", "m", "a", "s", "j", "o", "n", "s", "k", "a", "p", "s", "l", "e", "r">>,
    <<"o", "p", "p", "l", "e", "v", "e", "l", "s", "e">>,
    <<"p", "a", "r", "t", "n", "e", "r", "e">>,
    <<"r", "e", "t", "n", "i", "n", "g", "s", "l", "i", "n", "j", "e", "r">>,
    <<"m", "a", "r", "k", "e", "d", "s", "f", "oslash", "r", "i", "n", "g">> }

getAllCookieKeywords == COOKIE_KEYWORDS \cup COOKIE_CONTENT_KEYWORDS

\* keywords.some(keyword => text.includes(keyword)).
someIncluded(keywords, text) == \E keyword \in keywords : includes(text, keyword)

Space == <<" ">>
StrEmpty == <<>>
StrOK == <<"O", "K">>
StrCookie == <<"C", "o", "o", "k", "i", "e">>
StrGodta == <<"G", "o", "d", "t", "a">>
StrNewsletter == <<"N", "e", "w", "s", "l", "e", "t", "t", "e", "r">>
StrUsercentrics == <<"u", "s", "e", "r", "c", "e", "n", "t", "r", "i", "c", "s">>
StrGdprNotice == <<"g", "d", "p", "r", "-", "n", "o", "t", "i", "c", "e">>

\* An HTML element as isCookieRelatedButton reads it: the text nodes it holds,
\* its class, id and aria-label.
ButtonTexts == {StrOK, StrCookie, StrGodta, StrNewsletter, StrUsercentrics, StrEmpty}
AttrTexts == {StrEmpty, StrCookie, StrNewsletter}
ButtonElements == [text : ButtonTexts, className : AttrTexts, id : AttrTexts, ariaLabel : AttrTexts]

\* An ancestor as hasParentCookieContext reads it: the text its other
\* descendants hold, its class and its id.
Ancestor(text, className, id) == [text |-> text, className |-> className, id |-> id]
PlainAncestor == Ancestor(StrEmpty, StrEmpty, StrEmpty)
AncestorShapes ==
  { PlainAncestor,
    Ancestor(StrCookie, StrEmpty, StrEmpty),
    Ancestor(StrEmpty, StrCookie, StrEmpty),
    Ancestor(StrEmpty, StrEmpty, StrGdprNotice),
    Ancestor(StrEmpty, StrGodta, StrEmpty) }
\* The chains of ancestors of an element, the parent first.
AncestorChains ==
  {chain \in UNION {[1..n -> AncestorShapes] : n \in 0..MaxDepth} :
     Cardinality({i \in DOMAIN chain : chain[i] # PlainAncestor}) <= MaxMarked}

\* node.textContent of the ancestor at a distance (0: the element): the text
\* of all its descendants, joined without a separator.
RECURSIVE textContent(_, _, _)
textContent(element, ancestors, distance) ==
  IF distance = 0 THEN element.text
  ELSE ancestors[distance].text \o textContent(element, ancestors, distance - 1)

\* The ancestors the loop of hasParentCookieContext visits.
ParentLevels == 5

\* hasParentCookieContext whose loop stops one level later.
hasParentCookieContextDeeper(element, ancestors) ==
  \E distance \in 1..Min(ParentLevels + 1, Len(ancestors)) :
    LET parent == ancestors[distance]
        parentContent == toLowerCase(textContent(element, ancestors, distance)) \o Space
                           \o toLowerCase(parent.className) \o Space \o toLowerCase(parent.id)
    IN someIncluded(COOKIE_KEYWORDS, parentContent)

\* hasParentCookieContext, lines 97-122.
hasParentCookieContext(element, ancestors) ==
  \E distance \in 1..Min(ParentLevels, Len(ancestors)) :
    LET parent == ancestors[distance]
        parentContent == toLowerCase(textContent(element, ancestors, distance)) \o Space
                           \o toLowerCase(parent.className) \o Space \o toLowerCase(parent.id)
    IN someIncluded(COOKIE_KEYWORDS, parentContent)

\* `${text} ${className} ${id} ${ariaLabel}`.toLowerCase(), lines 60-66.
allText(element) ==
  toLowerCase(toLowerCase(element.text) \o Space \o toLowerCase(element.className) \o Space
                \o toLowerCase(element.id) \o Space \o toLowerCase(element.ariaLabel))

\* isCookieRelatedButton without the exclusion check.
cookieRelatedWithoutExclusion(element, ancestors) ==
  \/ someIncluded(getAllCookieKeywords, allText(element))
  \/ hasParentCookieContext(element, ancestors)

\* isCookieRelatedButton, lines 59-92, of an HTML element and its ancestors.
cookieRelatedButton(element, ancestors) ==
  IF someIncluded(EXCLUDE_KEYWORDS, allText(element)) THEN FALSE
  ELSE IF someIncluded(getAllCookieKeywords, allText(element)) THEN TRUE
  ELSE hasParentCookieContext(element, ancestors)

InitButton ==
  /\ Detached
  /\ \E ancestors \in AncestorChains, element \in ButtonElements :
       domCall = DomCall("isCookieRelatedButton",
                         [element |-> element, ancestors |-> ancestors], FALSE, FALSE)

IsCookieRelatedButton ==
  /\ domCall.fn = "isCookieRelatedButton"
  /\ ~domCall.made
  /\ domCall' = [domCall EXCEPT !.made = TRUE,
                                !.result = cookieRelatedButton(domCall.input.element,
                                                               domCall.input.ancestors)]
  /\ lastOp' = Idle
  /\ UNCHANGED <<pc, now, apiConsentProcessed, lastDeclineAttempt, declineAttemptCount,
                 pingPending, timers, vendorDeclines, tcfVars, cdVars, tcfapi, sp, isTop,
                 dom, iframes, inbox, tcData, tcfThrows, events, clicks>>

NextButton == IsCookieRelatedButton

SpecButton == InitButton /\ [][NextButton]_vars

\* --- findAndClickDeclineButton on a given page --------------------------------
StrTilpassEllerAvvis == <<"T", "i", "l", "p", "a", "s", "s", " ", "e", "l", "l", "e", "r", " ", "a", "v", "v", "i", "s">>
StrAvvisAlle == <<"A", "v", "v", "i", "s", " ", "a", "l", "l", "e">>

\* A page: its elements in document order, without attribute, class or id,
\* each with its tag, its text and whether isElementVisible holds of it.
Pages ==
  UNION {[1..n -> [tag : Tags, textContent : {StrTilpassEllerAvvis, StrAvvisAlle, StrOK},
                   visible : BOOLEAN]] : n \in 1..MaxDocElems}

\* The elements a rule hands to processElement, lines 38-45; the catch of
\* line 47 ends the rule.
ruleElements(doc, rule) ==
  LET found == findElementsBySelector(doc, rule)
  IN IF found.threw THEN {} ELSE found.elements

\* processElement's checks, lines 55-65, on the element at position i.
accepted(doc, i, attempted) ==
  /\ doc[i].visible
  /\ i \notin attempted
  /\ cookieRelatedButton([text |-> doc[i].textContent, className |-> classOf(doc[i]),
                          id |-> StrEmpty, ariaLabel |-> StrEmpty], <<>>)

NoClick == [rule |-> 0, element |-> 0]

\* A scan that walks the document first and the rules second.
scanClickInDocumentOrder(doc, declineSelectors, attempted) ==
  LET rulesOf(i) == {r \in DOMAIN declineSelectors :
                       i \in ruleElements(doc, declineSelectors[r]) /\ accepted(doc, i, attempted)}
      elements == {i \in DOMAIN doc : rulesOf(i) # {}}
  IN IF elements = {} THEN NoClick
     ELSE LET element == CHOOSE i \in elements : \A o \in elements : i <= o
          IN [rule |-> CHOOSE r \in rulesOf(element) : \A o \in rulesOf(element) : r <= o,
              element |-> element]

\* The rule and the element of the click of findAndClickDeclineButton, lines
\* 37-49: the rules in catalog order, the elements of a rule in document
\* order, the first accepted element ends the scan.
scanClick(doc, declineSelectors, attempted) ==
  LET hits(r) == {i \in ruleElements(doc, declineSelectors[r]) : accepted(doc, i, attempted)}
      rules == {r \in DOMAIN declineSelectors : hits(r) # {}}
  IN IF rules = {} THEN NoClick
     ELSE LET rule == CHOOSE r \in rules : \A o \in rules : r <= o
          IN [rule |-> rule,
              element |-> CHOOSE i \in hits(rule) : \A o \in hits(rule) : i <= o]

InitCatalog ==
  /\ Detached
  /\ \E doc \in Pages :
       domCall = DomCall("findAndClickDeclineButton", [doc |-> doc], FALSE, NoClick)

\* The initial scan of the page.
FindAndClickDeclineButton ==
  /\ domCall.fn = "findAndClickDeclineButton"
  /\ ~domCall.made
  /\ LET click == IF IsProcessed THEN NoClick
                  ELSE scanClick(domCall.input.doc, getAllDeclineSelectors, processed)
     IN /\ domCall' = [domCall EXCEPT !.made = TRUE, !.result = click]
        /\ IF click = NoClick
           THEN /\ UNCHANGED <<clicks, processed, consentProcessed, apiConsentProcessed, observer>>
                /\ lastOp' = Idle
           ELSE /\ processElement(click.element)
                /\ lastOp' = Op({"click"}, "none")
  /\ UNCHANGED <<pc, now, lastDeclineAttempt, declineAttemptCount, pingPending, timers,
                 vendorDeclines, tcfVars, processedIframes, tcfapi, sp, isTop, dom, iframes,
                 inbox, tcData, tcfThrows, events>>

NextCatalog == FindAndClickDeclineButton

SpecCatalog == InitCatalog /\ [][NextCatalog]_vars

\* ---------------------------------------------------------------------------
\* The mutation observer (content-script.ts 84-111)
\* ---------------------------------------------------------------------------
\* An added element node as hasCookieContent reads it.  The className of an
\* HTML element is a string; that of an SVG element is an SVGAnimatedString,
\* which has no toLowerCase.
AddedElement(kind, text, className, id) ==
  [kind |-> kind, textContent |-> text, className |-> className, id |-> id]
\* The element nodes among mutation.addedNodes, for the records of a batch.
RecordShapes ==
  { <<>>,
    <<AddedElement("html", StrOK, StrEmpty, StrEmpty)>>,
    <<AddedElement("html", StrEmpty, StrCookie, StrEmpty)>>,
    <<AddedElement("html", StrCookie, StrEmpty, StrEmpty)>>,
    <<AddedElement("svg", StrEmpty, StrEmpty, StrEmpty)>> }
Batches == UNION {[1..n -> RecordShapes] : n \in 1..MaxRecords}
\* Math.floor(Math.random() * 200).
Jitter == {0, 199}

\* DOMUtils.hasCookieContent, dom-utils.ts 148-157: the value, or the
\* TypeError of className.toLowerCase on the first element that is reached
\* and is no HTML element.
hasCookieContent(elements) ==
  LET relevant(i) ==
        someIncluded(COOKIE_KEYWORDS,
                     toLowerCase(elements[i].textContent) \o Space
                       \o toLowerCase(elements[i].className) \o Space
                       \o toLowerCase(elements[i].id))
      deciding == {i \in DOMAIN elements : elements[i].kind # "html" \/ relevant(i)}
  IN IF deciding = {} THEN [threw |-> FALSE, value |-> FALSE]
     ELSE LET first == CHOOSE i \in deciding : \A o \in deciding : i <= o
          IN IF elements[first].kind # "html"
             THEN [threw |-> TRUE, value |-> FALSE]
             ELSE [threw |-> FALSE, value |-> TRUE]

\* The rescan timers of the records in `records`, each with its delay.
RECURSIVE rescans(_, _)
rescans(records, jitter) ==
  IF records = {} THEN EmptyBag
  ELSE LET i == CHOOSE r \in records : TRUE
       IN One("rescan", 400 + jitter[i]) (+) rescans(records \ {i}, jitter)

\* The page inserts nodes, reported to the observer as a batch of records;
\* a candidate element e may be among them (e = 0: none).  The callback,
\* lines 85-105: the loop over the records ends at the first exception.
Mutations(e, status, batch, jitter) ==
  /\ pc = "running"
  /\ events < MaxEvents
  /\ events' = events + 1
  /\ IF e = 0 THEN UNCHANGED dom
     ELSE /\ dom[e] = "absent"
          /\ dom' = [dom EXCEPT ![e] = status]
  /\ LET entered == observer = "connected" /\ ~(consentProcessed \/ apiConsentProcessed)
         results == [i \in DOMAIN batch |-> hasCookieContent(batch[i])]
         throwing == {i \in DOMAIN batch : results[i].threw}
         reached == {i \in DOMAIN batch : \A t \in throwing : i < t}
         scheduled == {i \in reached : results[i].value}
     IN /\ domCall' = DomCall("hasCookieContent", batch, entered, results)
        /\ IF entered
           THEN NoDecline(timers (+) rescans(scheduled, jitter),
                          Op(IF throwing = {} THEN {} ELSE {"uncaught"}, "none"))
           ELSE NoDecline(timers, Idle)
  /\ UNCHANGED <<pc, now, tcfVars, cdVars, tcfapi, sp, isTop, iframes, inbox, tcData, tcfThrows, clicks>>

InitObserver ==
  /\ Fresh
  /\ tcfThrows = {}
  /\ domCall = NoDomCall
  /\ pc = "checkTCF"
  /\ tcfapi = FALSE
  /\ sp = NoSP
  /\ isTop = FALSE
  /\ dom \in [Elements -> {"absent", "eligible"}]
  /\ iframes = {}

NextObserver ==
  \/ CheckTCF
  \/ CheckSP
  \/ InitialScan
  \/ SetupMutationObserver
  \/ SetupPostMessageListener
  \/ \E e \in Elements \cup {0}, batch \in Batches :
       \E jitter \in [DOMAIN batch -> Jitter] : Mutations(e, "eligible", batch, jitter)
  \/ RescanTimer

SpecObserver == InitObserver /\ [][NextObserver]_vars

\* ---------------------------------------------------------------------------
\* The scan on a page with a SourcePoint banner
\* ---------------------------------------------------------------------------
\* Buttons of the banner: "Godta" (accept) and "OK", with the class of the
\* vendor's reject-all choice, of its accept-all choice, or none.
StrMessageButtonType12 == <<"m", "e", "s", "s", "a", "g", "e", "-", "b", "u", "t", "t", "o", "n", " ", "s", "p", "_", "c", "h", "o", "i", "c", "e", "_", "t", "y", "p", "e", "_", "1", "2">>
BannerPages ==
  UNION {[1..n -> [tag : {"button"}, textContent : {StrGodta, StrAvvisAlle, StrOK},
                   visible : BOOLEAN,
                   className : {StrEmpty, StrSpChoiceType11, StrMessageButtonType12}]] :
           n \in 1..MaxDocElems}

InitBanner ==
  /\ Detached
  /\ \E doc \in BannerPages :
       domCall = DomCall("findAndClickDeclineButton", [doc |-> doc], FALSE, NoClick)

SpecBanner == InitBanner /\ [][NextCatalog]_vars

\* ---------------------------------------------------------------------------
\* A two-step banner: the customize control, then the final-reject control
\* ---------------------------------------------------------------------------
\* The candidate matched by 'button:contains("Tilpass eller avvis")' and the
\* one matched by 'button:contains("Avvis alle")', which the page inserts with
\* its settings panel once the first has been clicked.
StepOneControl == 1
StepTwoControl == 2

InitTwoStep ==
  /\ Fresh
  /\ tcfThrows = {}
  /\ domCall = NoDomCall
  /\ pc = "checkTCF"
  /\ tcfapi = FALSE
  /\ sp = NoSP
  /\ isTop \in BOOLEAN
  /\ dom \in {d \in [Elements -> {"absent", "eligible"}] :
                \A e \in Elements \ {StepOneControl} : d[e] = "absent"}
  /\ iframes = {}

\* The page shows the banner with the customize control.
BannerAppears == AddNodes(StepOneControl, "eligible", TRUE)

\* The click on the customize control opens the settings panel: the page
\* inserts it, with the final-reject control.
SettingsPanelOpens ==
  /\ StepOneControl \in processed
  /\ AddNodes(StepTwoControl, "eligible", TRUE)

\* init and the callbacks it leaves pending.
TwoStepProgram ==
  \/ CheckTCF
  \/ CheckSP
  \/ InitialScan
  \/ SetupMutationObserver
  \/ SetupPostMessageListener
  \/ RescanTimer
  \/ TcfChecker
  \/ IframeCheckTimer

NextTwoStep ==
  \/ TwoStepProgram
  \/ BannerAppears
  \/ SettingsPanelOpens
  \/ Tick

SpecTwoStep == InitTwoStep /\ [][NextTwoStep]_vars

\* The constructor runs to its end and every pending timer fires.
SpecTwoStepLive == SpecTwoStep /\ WF_vars(TwoStepProgram)

\* ---------------------------------------------------------------------------
\* DOMUtils.handleCheckboxConsent (src/src/dom-utils.ts, lines 164-245)
\* ---------------------------------------------------------------------------
MaxBoxes == 2
MaxSaveElems == 2

StrMarkedsforing == <<"M", "a", "r", "k", "e", "d", "s", "f", "oslash", "r", "i", "n", "g">>
StrNodvendige == <<"N", "oslash", "d", "v", "e", "n", "d", "i", "g", "e">>
StrNecessaryMarketing == <<"N", "e", "c", "e", "s", "s", "a", "r", "y", " ", "m", "a", "r", "k", "e", "t", "i", "n", "g">>
StrCookieConsentManager == <<"c", "o", "o", "k", "i", "e", "_", "c", "o", "n", "s", "e", "n", "t", "_", "m", "a", "n", "a", "g", "e", "r">>
StrLagreOgLukk == <<"L", "a", "g", "r", "e", " ", "&", " ", "l", "u", "k", "k">>

\* The label texts that take a checkbox out, lines 184-186, and those that
\* take it in, lines 189-195.
NECESSARY_LABELS ==
  { <<"n", "oslash", "d", "v", "e", "n", "d", "i", "g", "e">>,
    <<"n", "e", "c", "e", "s", "s", "a", "r", "y">>,
    <<"e", "s", "s", "e", "n", "t", "i", "a", "l">> }
OPTIONAL_LABELS ==
  { <<"a", "n", "a", "l", "y", "s", "e">>,
    <<"s", "t", "a", "t", "i", "s", "t", "i", "k", "k">>,
    <<"m", "a", "r", "k", "e", "d", "s", "f", "oslash", "r", "i", "n", "g">>,
    <<"m", "a", "r", "k", "e", "t", "i", "n", "g">>,
    <<"a", "d", "v", "e", "r", "t", "i", "s", "i", "n", "g">>,
    <<"p", "r", "e", "f", "e", "r", "a", "n", "s", "e", "r">>,
    <<"p", "r", "e", "f", "e", "r", "e", "n", "c", "e", "s">> }

\* The nearest div ancestor of a checkbox that carries an id or a class, or
\* none: what closest() of line 177 looks at.
NoContainer == [present |-> FALSE, id |-> StrEmpty, className |-> StrEmpty]
Container(id, className) == [present |-> TRUE, id |-> id, className |-> className]
Containers ==
  { NoContainer,
    Container(StrCookieConsentManager, StrEmpty),
    Container(StrEmpty, StrCookie) }

\* checkbox.closest('div[id*="cookie"], div[class*="cookie"], div[id*="consent"],
\* div[class*="consent"]'): attribute values are compared as they are written.
closest(container) ==
  /\ container.present
  /\ \E part \in {<<"c", "o", "o", "k", "i", "e">>, <<"c", "o", "n", "s", "e", "n", "t">>} :
       includes(container.id, part) \/ includes(container.className, part)

\* An input[type="checkbox"]: its disabled and checked properties, the
\* container around it, and the textContent of its parent element.
Checkboxes ==
  [disabled : BOOLEAN, checked : BOOLEAN, container : Containers,
   label : {StrMarkedsforing, StrNodvendige, StrNecessaryMarketing, StrOK}]
CheckboxForms == UNION {[1..n -> Checkboxes] : n \in 1..MaxBoxes}

\* The other elements of the page, in document order; confirm: the id
\* contains "cookie_consent_manager_confirm".
SaveElement(tag, text, visible, confirm) ==
  [tag |-> tag, textContent |-> text, visible |-> visible, confirm |-> confirm]
SaveElements ==
  { SaveElement("button", StrLagreOgLukk, TRUE, FALSE),
    SaveElement("button", StrLagreOgLukk, FALSE, FALSE),
    SaveElement("button", StrOK, TRUE, FALSE),
    SaveElement("div", StrEmpty, TRUE, TRUE),
    SaveElement("div", StrLagreOgLukk, TRUE, FALSE) }
SavePages == UNION {[1..n -> SaveElements] : n \in 0..MaxSaveElems}

\* saveButtonSelectors, lines 213-221.
ConfirmScope == "div[id*=\"cookie_consent_manager_confirm\"]"
saveButtonSelectors ==
  << Selector("button", "quoted", <<"L", "a", "g", "r", "e", " ", "&", " ", "l", "u", "k", "k">>),
     Selector("button", "quoted", <<"L", "a", "g", "r", "e">>),
     Selector(ConfirmScope, "none", <<>>),
     Selector("button", "quoted", <<"S", "a", "v", "e", " ", "&", " ", "c", "l", "o", "s", "e">>),
     Selector("button", "quoted", <<"S", "a", "v", "e", " ", "s", "e", "t", "t", "i", "n", "g", "s">>),
     Selector("button", "quoted", <<"B", "e", "k", "r", "e", "f", "t", " ", "v", "a", "l", "g">>),
     Selector("button", "quoted", <<"C", "o", "n", "f", "i", "r", "m", " ", "c", "h", "o", "i", "c", "e", "s">>) >>

\* this.findElementsBySelector(selector) of line 224 on a page.
saveButtons(doc, selector) ==
  IF selector.scope = ConfirmScope
  THEN {i \in DOMAIN doc : doc[i].tag = "div" /\ doc[i].confirm}
  ELSE findElementsBySelector(doc, selector).elements

\* The checkboxes that pass the filter of lines 170-198.
cookieCheckboxes(boxes) ==
  {i \in DOMAIN boxes :
     LET label == toLowerCase(boxes[i].label)
     IN /\ ~boxes[i].disabled
        /\ closest(boxes[i].container)
        /\ ~\E word \in NECESSARY_LABELS : includes(label, word)
        /\ \E word \in OPTIONAL_LABELS : includes(label, word)}

\* The first visible save button, lines 223-232: selectors in the order of
\* the list, the buttons of a selector in document order; 0 if there is none.
firstSaveButton(doc) ==
  LET hits(k) == {i \in saveButtons(doc, saveButtonSelectors[k]) : doc[i].visible}
      found == {k \in DOMAIN saveButtonSelectors : hits(k) # {}}
  IN IF found = {} THEN 0
     ELSE LET first == CHOOSE k \in found : \A o \in found : k <= o
          IN CHOOSE i \in hits(first) : \A o \in hits(first) : i <= o

\* What a call leaves: the value returned, the checked property of every
\* checkbox, the checkboxes a change event was dispatched on, and the element
\* clicked (0 if none).
CheckboxOutcome(value, checked, changeEvents, clicked) ==
  [value |-> value, checked |-> checked, changeEvents |-> changeEvents, clicked |-> clicked]

\* handleCheckboxConsent whose filter does not skip disabled checkboxes.
handleCheckboxConsentDisabledToo(boxes, doc) ==
  LET optional == {i \in DOMAIN boxes :
                     LET label == toLowerCase(boxes[i].label)
                     IN /\ closest(boxes[i].container)
                        /\ ~\E word \in NECESSARY_LABELS : includes(label, word)
                        /\ \E word \in OPTIONAL_LABELS : includes(label, word)}
      unchecked == {i \in optional : boxes[i].checked}
      after == [i \in DOMAIN boxes |-> boxes[i].checked /\ i \notin unchecked]
  IN IF unchecked = {}
     THEN CheckboxOutcome(FALSE, after, {}, 0)
     ELSE CheckboxOutcome(firstSaveButton(doc) # 0, after, unchecked, firstSaveButton(doc))

\* handleCheckboxConsent, lines 164-245.
handleCheckboxConsent(boxes, doc) ==
  LET unchecked == {i \in cookieCheckboxes(boxes) : boxes[i].checked}
      after == [i \in DOMAIN boxes |-> boxes[i].checked /\ i \notin unchecked]
  IN IF unchecked = {}
     THEN CheckboxOutcome(FALSE, after, {}, 0)
     ELSE CheckboxOutcome(firstSaveButton(doc) # 0, after, unchecked, firstSaveButton(doc))

InitCheckbox ==
  /\ Detached
  /\ \E boxes \in CheckboxForms, doc \in SavePages :
       domCall = DomCall("handleCheckboxConsent", [boxes |-> boxes, doc |-> doc], FALSE,
                         CheckboxOutcome(FALSE, <<>>, {}, 0))

\* A call of DOMUtils.handleCheckboxConsent on the page.
HandleCheckboxConsent ==
  /\ domCall.fn = "handleCheckboxConsent"
  /\ ~domCall.made
  /\ LET outcome == handleCheckboxConsent(domCall.input.boxes, domCall.input.doc)
     IN /\ domCall' = [domCall EXCEPT !.made = TRUE, !.result = outcome]
        /\ clicks' = Bump(clicks, IF outcome.clicked # 0 THEN 1 ELSE 0)
        /\ lastOp' = Op(IF outcome.clicked # 0 THEN {"click"} ELSE {}, "none")
  /\ UNCHANGED <<pc, now, apiConsentProcessed, lastDeclineAttempt, declineAttemptCount,
                 pingPending, timers, vendorDeclines, tcfVars, cdVars, tcfapi, sp, isTop, dom,
                 iframes, inbox, tcData, tcfThrows, events>>

NextCheckbox == HandleCheckboxConsent

SpecCheckbox == InitCheckbox /\ [][NextCheckbox]_vars

TypeOK ==
  /\ tcfThrows \subseteq TCFCommands
  /\ pc \in {"checkTCF", "checkSP", "scan", "observer", "listener", "running", "api"}
  /\ apiConsentProcessed \in BOOLEAN
  /\ consentProcessed \in BOOLEAN
  /\ declineAttemptCount \in 0..MAX_DECLINE_ATTEMPTS
  /\ observer \in {"null", "connected", "disconnected"}
  /\ processed \subseteq Elements
  /\ clicks \in 0..EffectCap
  /\ vendorDeclines \in 0..EffectCap
  /\ lastOp.gate \in Gates
  /\ lastOp.effects \subseteq Effects

\* ---------------------------------------------------------------------------
\* Properties
\* ---------------------------------------------------------------------------
\* C1: over the page lifetime, DOM clicks plus vendor decline calls (TCF
\* bulk-decline calls, passes that invoke SourcePoint entry points) number at
\* most one, whatever the interleaving of the trigger paths.
C1_AtMostOneDeclineAction == clicks + vendorDeclines <= 1

\* C2: across the initial scan and every mutation-triggered rescan,
\* DOMUtils.clickElement is invoked at most once.
C2_ClickAtMostOnce == clicks <= 1

\* A rescan has clicked while another rescan timer is still pending.
C2_RescanClicked ==
  /\ pc = "running"
  /\ clicks = 1
  /\ "click" \in lastOp.effects
  /\ Pending("rescan") # {}

\* C3: a declineAllConsent call made while consent is processed increments
\* neither declineAttemptCount nor lastDeclineAttempt.
C3_NoAttemptAfterProcessed ==
  [][(IsProcessed /\ lastOp'.gate # "none")
       => /\ declineAttemptCount' = declineAttemptCount
          /\ lastDeclineAttempt' = lastDeclineAttempt]_vars

\* declineAllConsent has returned at its processed check, after an earlier
\* attempt had been recorded.
C3_RefusedWhenProcessed ==
  /\ IsProcessed
  /\ lastOp.gate = "processed"
  /\ declineAttemptCount >= 1

C5_ResolutionMarksProcessed ==
  (\/ lastOp.effects \cap {"click", "tcfSuccess", "hideMessage"} # {}
   \/ ("spDecline" \in lastOp.effects /\ ~sp.throws))
    => apiConsentProcessed

\* C6: a step that performs a decline side effect (DOM click, vendor decline
\* call, message posted to an iframe) has passed declineAllConsent's processed
\* check and rate limiter in that same step.
C6_EffectsAreGated ==
  lastOp.effects \cap DeclineEffects # {} => lastOp.gate = "passed"

\* C7: declineAttemptCount never exceeds MAX_DECLINE_ATTEMPTS, and a
\* declineAllConsent call made when it equals MAX_DECLINE_ATTEMPTS makes no
\* vendor call and schedules no iframe message, whatever the clock says.
C7_CeilingHolds ==
  [][/\ declineAttemptCount' <= MAX_DECLINE_ATTEMPTS
     /\ (declineAttemptCount = MAX_DECLINE_ATTEMPTS /\ lastOp'.gate # "none")
          => /\ lastOp'.gate \in {"processed", "ceiling"}
             /\ lastOp'.effects = {}
             /\ UNCHANGED <<vendorDeclines, pingPending, bulkPending, timers>>]_vars

\* The ceiling has refused a call that the minimum interval would have let
\* through.
C7_RefusedAtCeiling ==
  /\ declineAttemptCount = MAX_DECLINE_ATTEMPTS
  /\ lastOp.gate = "ceiling"
  /\ ~apiConsentProcessed
  /\ now - lastDeclineAttempt >= RATE_LIMIT_MS

\* C8: a declineAllConsent call that passes the rate limiter comes at least
\* RATE_LIMIT_MS after the previous one that passed (lastDeclineAttempt is
\* written by passing calls only, with their timestamp).
C8_PassesSpaced ==
  [][IF lastOp'.gate = "passed"
     THEN /\ now - lastDeclineAttempt >= RATE_LIMIT_MS
          /\ lastDeclineAttempt' = now
     ELSE lastDeclineAttempt' = lastDeclineAttempt]_vars

\* A second call has passed.
C8_SecondPass ==
  /\ lastOp.gate = "passed"
  /\ declineAttemptCount >= 2
  /\ lastDeclineAttempt = now

\* C9: a declineAllConsent call is refused exactly when consent is processed,
\* the ceiling is reached or the minimum interval has not elapsed, and a
\* refused call changes none of consentProcessed, lastDeclineAttempt and
\* declineAttemptCount, makes no vendor call and schedules no iframe message.
C9_RefusalChangesNothing ==
  [][/\ lastOp'.gate \in {"processed", "ceiling", "interval"}
          => /\ UNCHANGED <<apiConsentProcessed, lastDeclineAttempt, declineAttemptCount,
                            vendorDeclines, pingPending, bulkPending, timers>>
             /\ lastOp'.effects = {}
     /\ lastOp'.gate # "none"
          => (lastOp'.gate = "passed"
                <=> /\ ~apiConsentProcessed
                    /\ declineAttemptCount < MAX_DECLINE_ATTEMPTS
                    /\ now - lastDeclineAttempt >= RATE_LIMIT_MS)]_vars

\* A call has been refused for the interval on a page with a SourcePoint
\* iframe, one tick after a call that passed.
C9_RefusedForInterval ==
  /\ lastOp.gate = "interval"
  /\ declineAttemptCount >= 1
  /\ now - lastDeclineAttempt = ApiTickMs
  /\ iframes # {}

\* C10: no exposed operation decreases declineAttemptCount or removes an
\* element from the attempted set.
C10_CountAndAttemptedMonotone ==
  [][/\ declineAttemptCount' >= declineAttemptCount
     /\ processed \subseteq processed']_vars

\* C11: once init() has returned, whenever consent is processed (by either
\* flag, whichever path set it) the mutation observer is disconnected.
C11_ProcessedObserverDisconnected ==
  (pc = "running" /\ IsProcessed) => observer = "disconnected"

\* The initial scan clicked before the observer existed; init() then connected
\* the observer on a page whose consent is already processed.
C11_ConnectedAfterInitialClick ==
  /\ pc = "running"
  /\ consentProcessed
  /\ clicks = 1
  /\ observer = "connected"

\* C12: a timer callback (mutation rescan, sp.showMessage, iframe load,
\* periodic iframe check, delayed iframe postMessage send) that resumes when
\* consent is already processed clicks nothing, makes no vendor call and posts
\* no message.
C12_TimersNoOpAfterProcessed ==
  [][(IsProcessed /\ Resumes({"rescan", "showMessage", "iframeLoad", "iframeCheck", "iframePost"}))
       => lastOp'.effects \cap DeclineEffects = {}]_vars

\* The delayed iframe send has posted its messages on a page whose consent had
\* been marked processed by the orchestrator in the meantime.
C12_PostedAfterProcessed ==
  /\ pc = "running"
  /\ consentProcessed
  /\ "postMessage" \in lastOp.effects

\* C13: a TCF ping callback or bulk-decline result callback delivered when
\* consent is already processed issues no bulk-decline call, invokes no
\* SourcePoint entry point and schedules no iframe message.
C13_LateTCFCallbacksNoOp ==
  [][(IsProcessed /\ (pingPending' < pingPending \/ bulkPending' < bulkPending))
       => /\ lastOp'.effects \cap {"tcfDecline", "spDecline"} = {}
          /\ bulkPending' <= bulkPending
          /\ timers' = timers]_vars

\* The ping callback has issued the bulk-decline call on a page where the
\* orchestrator had already marked consent processed.
C13_BulkDeclineAfterProcessed ==
  /\ consentProcessed
  /\ "tcfDecline" \in lastOp.effects
  /\ bulkPending > 0

\* C14: the listener, run on a message whose origin is neither the page's own
\* origin nor a URL whose hostname is a registry entry or ends with '.' + a
\* registry entry, changes nothing of the orchestrator, of APIHandler or of
\* the scheduled work, whatever the payload (so two runs that differ in the
\* payload only stay identical); a hostname that merely contains an entry is
\* such an origin.
C14_UntrustedOriginNoEffect ==
  [][(/\ inbox.state = "queued"
      /\ inbox'.state = "handled"
      /\ inbox.origin # PageOrigin
      /\ ~(/\ inbox.origin.parses
           /\ \E domain \in trustedDomains :
                \/ inbox.origin.host = domain
                \/ endsWithDomain(inbox.origin.host, domain)))
       => /\ UNCHANGED <<apiConsentProcessed, consentProcessed, lastDeclineAttempt,
                         declineAttemptCount, processed, observer, processedIframes,
                         timers, pingPending, bulkPending, clicks, vendorDeclines>>
          /\ lastOp' = Idle]_vars

\* The listener has run on a well-formed sp.hideMessage whose origin has a
\* registry entry followed by another domain, and consent is unprocessed.
C14_LookalikeOriginDropped ==
  /\ inbox = MessageEvent(Origin("https", <<"notice", "sp-prod", "net", "evil", "example">>),
                          Obj("null", [k \in {"name"} |-> StrVal(StrHideMessage)]),
                          "handled")
  /\ ~IsProcessed
  /\ observer = "connected"

\* C15: the listener, run on a message whose payload has a key named
\* __proto__, constructor, prototype or another listed object-internal name,
\* neither marks consent processed nor schedules a decline attempt, whatever
\* the origin and the name field.
C15_DangerousKeyNoEffect ==
  [][(/\ inbox.state = "queued"
      /\ inbox'.state = "handled"
      /\ inbox.data.isObject
      /\ DOMAIN inbox.data.props \cap dangerousKeys # {})
       => UNCHANGED <<consentProcessed, apiConsentProcessed, timers>>]_vars

\* The listener has run on an sp.hideMessage from a registry origin whose
\* payload has a constructor key, and consent is unprocessed.
C15_ConstructorKeyDropped ==
  /\ inbox = MessageEvent(Origin("https", <<"notice", "sp-prod", "net">>),
                          Obj("null", [k \in {"name", "constructor"} |->
                                         IF k = "name" THEN StrVal(StrHideMessage) ELSE ObjVal]),
                          "handled")
  /\ ~IsProcessed

\* C16: the listener, run on a message from a trusted origin whose payload is
\* an ordinary object (inheriting from Object.prototype) with the single
\* property name = 'sp.hideMessage', marks consent processed.
C16_OrdinaryHideMarksProcessed ==
  [][(/\ inbox.state = "queued"
      /\ inbox'.state = "handled"
      /\ isTrustedOrigin(inbox.origin)
      /\ inbox.data = Obj("Object", [k \in {"name"} |-> StrVal(StrHideMessage)]))
       => (consentProcessed' /\ apiConsentProcessed')]_vars

\* The listener has run on such a message from a registry origin and consent
\* is still unprocessed.
C16_OrdinaryHideDropped ==
  /\ inbox = MessageEvent(Origin("https", <<"notice", "sp-prod", "net">>),
                          Obj("Object", [k \in {"name"} |-> StrVal(StrHideMessage)]),
                          "handled")
  /\ ~IsProcessed
  /\ observer = "connected"

\* C17: the listener, run on a message from a trusted origin whose payload is
\* an ordinary object with name = 'sp.showMessage', schedules one decline
\* attempt, and the scheduled callback calls declineAllConsent exactly when
\* consent is unprocessed as it runs.
C17_OrdinaryShowSchedulesAttempt ==
  [][/\ (/\ inbox.state = "queued"
         /\ inbox'.state = "handled"
         /\ isTrustedOrigin(inbox.origin)
         /\ inbox.data = Obj("Object", [k \in {"name"} |-> StrVal(StrShowMessage)]))
          => timers' = timers (+) One("showMessage", 0)
     /\ Resumes({"showMessage"}) => (lastOp'.gate # "none" <=> ~IsProcessed)]_vars

\* The listener has run on such a message from a registry origin and no
\* decline attempt is scheduled.
C17_OrdinaryShowDropped ==
  /\ inbox = MessageEvent(Origin("https", <<"notice", "sp-prod", "net">>),
                          Obj("Object", [k \in {"name"} |-> StrVal(StrShowMessage)]),
                          "handled")
  /\ Pending("showMessage") = {}
  /\ declineAttemptCount = 0

\* C18: the listener, run on a message that the origin gate, the self-message
\* gate or the payload validation rejects, changes no consent state (processed
\* flags, attempt count, last-attempt time, attempted set), schedules no
\* timer and performs nothing else: no reply is posted, and the listener runs
\* to its end (the failures of new URL and JSON.stringify are the rejecting
\* branches of their gates).
C18_RejectedMessageNoEffect ==
  [][(/\ inbox.state = "queued"
      /\ inbox'.state = "handled"
      /\ \/ ~isTrustedOrigin(inbox.origin)
         \/ isOwnMessage(inbox.data)
         \/ ~isValidPostMessageData(inbox.data))
       => /\ UNCHANGED <<apiConsentProcessed, consentProcessed, lastDeclineAttempt,
                         declineAttemptCount, processed, observer, processedIframes,
                         timers, pingPending, bulkPending, clicks, vendorDeclines>>
          /\ lastOp' = Idle]_vars

\* The listener has run on an sp.hideMessage from a registry origin that
\* carries the orchestrator's own source tag, and consent is unprocessed.
C18_OwnTaggedHideDropped ==
  /\ inbox = MessageEvent(Origin("https", <<"notice", "sp-prod", "net">>),
                          Obj("null", [k \in {"name", "source"} |->
                                         IF k = "name" THEN StrVal(StrHideMessage)
                                         ELSE StrVal(StrCookieDecliner)]),
                          "handled")
  /\ rejectedAt(inbox.origin, inbox.data) = "self"
  /\ ~IsProcessed
  /\ timers = EmptyBag

\* C19: when the listener has run on a message of one of the two shapes that
\* tryIframeCommunication posts ({type: 'sp.choice', choice: 11, messageId}
\* and {name: 'sp.messageChoiceSelect', body}), arriving from a trusted
\* origin, it was the self-message gate that rejected it.
C19_OwnShapesRejectedAtSelfGate ==
  (/\ inbox.state = "handled"
   /\ isTrustedOrigin(inbox.origin)
   /\ inbox.data \in OutboundMessages)
    => rejectedAt(inbox.origin, inbox.data) = "self"

\* The listener has run on the sp.messageChoiceSelect shape from a registry
\* origin: it went past the self-message gate and was dropped by the payload
\* validation.
C19_ChoiceSelectPastSelfGate ==
  /\ inbox = MessageEvent(Origin("https", <<"notice", "sp-prod", "net">>),
                          choiceSelectMessage(StrVal(StrMessageId)), "handled")
  /\ ~isOwnMessage(inbox.data)
  /\ rejectedAt(inbox.origin, inbox.data) = "payload"

\* C20: every message the delayed send posts to an iframe has as target
\* origin the origin of a registry host: the origin of the iframe's src when
\* the hostname of that src is a registry entry or a subdomain of one, the
\* fixed SourcePoint origin otherwise; never the wildcard, never the origin
\* of an unregistered host.
C20_TargetIsRegistryOrigin ==
  \A m \in lastOp.sent :
    LET src == iframeKind(m.to).src
        registered(host) ==
          \E domain \in trustedDomains : host = domain \/ endsWithDomain(host, domain)
    IN /\ m.target.parses
       /\ m.target.scheme \in {"http", "https"}
       /\ registered(m.target.host)
       /\ m.target = IF src.present /\ src.parses /\ registered(src.host)
                     THEN Origin(src.scheme, src.host)
                     ELSE SourcePointOrigin

\* The delayed send has posted to an iframe whose src is on an unregistered
\* host, with the fixed SourcePoint origin as target.
C20_PostedToUnregisteredIframe ==
  \E m \in lastOp.sent :
    /\ iframeKind(m.to).src = Url("https", <<"cmp", "evil", "example">>)
    /\ m.target = SourcePointOrigin
    /\ m.data = choiceSelectMessage(Undefined)

\* C21: the probe for the TCF entry point runs at most 3 times in the top
\* frame and at most once in another frame; the probes are scheduled with the
\* delays 100, 1000 and 2000 ms, one at a time; a probe that finds the entry
\* point binds the handlers, which were not bound before, and schedules no
\* further probe; once no probe is pending none is scheduled again.
C21_ProbeBounded ==
  [][/\ tcfCheckCount' <= (IF isTop THEN 3 ELSE 1)
     /\ \A t \in Pending("tcfCheck")' :
          /\ CopiesIn(t, timers') = 1
          /\ t.arg = (IF tcfCheckCount' = 0 THEN 100 ELSE 1000 * tcfCheckCount')
          /\ Pending("tcfCheck")' = {t}
     /\ tcfCheckCount' # tcfCheckCount
          => /\ tcfCheckCount' = tcfCheckCount + 1
             /\ Pending("tcfCheck") # {}
             /\ IF tcfapi
                THEN /\ ~tcfListener /\ tcfListener' /\ getTCDataPending'
                     /\ Pending("tcfCheck")' = {}
                ELSE /\ UNCHANGED <<tcfListener, getTCDataPending>>
                     /\ (Pending("tcfCheck")' = {}) <=> (tcfCheckCount' = 3 \/ ~isTop)
     /\ (pc # "checkTCF" /\ Pending("tcfCheck") = {}) => Pending("tcfCheck")' = {}]_vars

\* In the top frame the third probe has found no entry point and the wait is
\* over.
C21_GaveUpAfterThree ==
  /\ isTop
  /\ ~tcfapi
  /\ tcfCheckCount = 3
  /\ Pending("tcfCheck") = {}
  /\ ~tcfListener

\* C22: the getTCData callback calls declineAllConsent when the vendor
\* reports, with success, that the consent UI is shown, and makes no decline
\* attempt when the vendor reports eventStatus 'useractioncomplete'.
C22_DeclineOnlyWhenUndecided ==
  [][(tcData.state = "queued" /\ tcData'.state = "handled")
       => /\ (tcData.success /\ tcData.eventStatus = "cmpuishown") => lastOp'.gate # "none"
          /\ tcData.eventStatus = "useractioncomplete" => lastOp'.gate = "none"]_vars

\* The callback has started a decline attempt on an answer that reports the
\* user's choice as complete.
C22_DeclinedAfterUserAction ==
  /\ tcData = TCData(TRUE, "useractioncomplete", "loaded", "handled")
  /\ lastOp.gate = "passed"
  /\ pingPending > 0

\* C23: an exception thrown by a vendor API call (window.__tcfapi on
\* getTCData, addEventListener, ping or the bulk decline; a SourcePoint entry
\* point) is caught inside the bridge: no step of the bridge ends with the
\* exception uncaught.
C23_VendorExceptionsCaught == "uncaught" \notin lastOp.effects

\* declineAllConsent has recorded its attempt and the exception of the ping
\* call has left it.
C23_PingThrewOutOfDecline ==
  /\ tcfapi
  /\ "ping" \in tcfThrows
  /\ "uncaught" \in lastOp.effects
  /\ lastOp.gate = "passed"
  /\ declineAttemptCount = 1
  /\ pingPending = 0

\* C24: when the click of the element a scan has chosen throws, the scan step
\* ends without an uncaught exception and with the element in the attempted
\* set, which no step shrinks and whose elements no scan accepts.
C24_ThrowingClickRecorded ==
  [][\A e \in Elements :
       (/\ "click" \in lastOp'.effects
        /\ dom[e] = "throwing"
        /\ e \notin processed
        /\ \A o \in Elements : (o < e) =>
              (dom[o] \in {"absent", "hidden", "unrelated"} \/ o \in processed))
       => /\ "uncaught" \notin lastOp'.effects
          /\ e \in processed'
          /\ processed \subseteq processed']_vars

\* A rescan has clicked an element whose click() throws, and the element is in
\* the attempted set.
C24_ThrowingElementAttempted ==
  /\ pc = "running"
  /\ "click" \in lastOp.effects
  /\ \E e \in processed : dom[e] = "throwing"
  /\ clicks = 1

\* C25: for a rule :contains("text") with nothing written before it,
\* findElementsBySelector returns, without an exception, the elements of the
\* whole document whose lower-cased text contains the lower-cased target.
C25_UnscopedContainsSearchesAll ==
  (/\ domCall.fn = "findElementsBySelector"
   /\ domCall.made
   /\ domCall.input.selector.scope = ""
   /\ domCall.input.selector.pseudo = "quoted"
   /\ Len(domCall.input.selector.text) >= 1)
  => /\ ~domCall.result.threw
     /\ domCall.result.elements =
          {i \in DOMAIN domCall.input.doc :
             includes(toLowerCase(domCall.input.doc[i].textContent),
                      toLowerCase(domCall.input.selector.text))}

\* The call for :contains("R") on a document whose button reads "r" has ended
\* with an exception.
C25_UnscopedContainsThrew ==
  /\ domCall.fn = "findElementsBySelector"
  /\ domCall.made
  /\ domCall.input.selector = Selector("", "quoted", <<"R">>)
  /\ domCall.input.doc = <<[tag |-> "button", textContent |-> <<"r">>]>>
  /\ domCall.result.threw

\* C26: isCookieRelatedButton returns false for every element whose own
\* text, class, id or aria-label contains an exclusion keyword, whatever
\* cookie keywords the element or its ancestors carry.
C26_ExclusionWins ==
  (/\ domCall.fn = "isCookieRelatedButton"
   /\ domCall.made
   /\ \E field \in {domCall.input.element.text, domCall.input.element.className,
                     domCall.input.element.id, domCall.input.element.ariaLabel} :
        \E keyword \in EXCLUDE_KEYWORDS : includes(toLowerCase(field), keyword))
  => domCall.result = FALSE

\* A button labelled "Newsletter", of class "Cookie", in a parent of class
\* "Cookie", has been rejected.
C26_NewsletterInBannerRejected ==
  /\ domCall.fn = "isCookieRelatedButton"
  /\ domCall.made
  /\ domCall.input.element.text = StrNewsletter
  /\ domCall.input.element.className = StrCookie
  /\ Len(domCall.input.ancestors) = 1
  /\ domCall.input.ancestors[1] = Ancestor(StrEmpty, StrCookie, StrEmpty)
  /\ domCall.result = FALSE

\* C27: an element with no exclusion keyword and no cookie keyword of its own
\* is accepted by isCookieRelatedButton if and only if an ancestor at
\* distance 1 to 5 carries a cookie keyword (in the text beneath it, its
\* class or its id); a keyword carried only at distance 6 or more leaves it
\* rejected.
C27_AncestorWithinFiveLevels ==
  LET element == domCall.input.element
      ancestors == domCall.input.ancestors
      own == {element.text, element.className, element.id, element.ariaLabel}
      carries(distance) ==
        \E content \in {textContent(element, ancestors, distance),
                         ancestors[distance].className, ancestors[distance].id} :
          \E keyword \in COOKIE_KEYWORDS : includes(toLowerCase(content), keyword)
  IN (/\ domCall.fn = "isCookieRelatedButton"
      /\ domCall.made
      /\ \A field \in own :
           \A keyword \in EXCLUDE_KEYWORDS \cup COOKIE_KEYWORDS \cup COOKIE_CONTENT_KEYWORDS :
             ~includes(toLowerCase(field), keyword))
     => (domCall.result <=> \E distance \in 1..5 : distance <= Len(ancestors) /\ carries(distance))

\* A button labelled "OK" whose sixth ancestor has the id "gdpr-notice", the
\* five ancestors between them carrying nothing, has been rejected.
C27_SixthLevelEvidenceRejected ==
  /\ domCall.fn = "isCookieRelatedButton"
  /\ domCall.made
  /\ domCall.input.element =
       [text |-> StrOK, className |-> StrEmpty, id |-> StrEmpty, ariaLabel |-> StrEmpty]
  /\ Len(domCall.input.ancestors) = 6
  /\ domCall.input.ancestors[6] = Ancestor(StrEmpty, StrEmpty, StrGdprNotice)
  /\ domCall.result = FALSE

\* C28: the relevance of an ancestor is decided from its class and id with
\* the keyword set of the self-check: an element with no exclusion keyword
\* and no cookie keyword of its own is accepted if an ancestor within 5
\* levels carries a keyword of that set in its class or id, and rejected if
\* none does.
C28_AncestorAttributesDecide ==
  LET element == domCall.input.element
      ancestors == domCall.input.ancestors
      own == {element.text, element.className, element.id, element.ariaLabel}
      selfCheckKeywords == COOKIE_KEYWORDS \cup COOKIE_CONTENT_KEYWORDS
      carries(distance) ==
        \E attribute \in {ancestors[distance].className, ancestors[distance].id} :
          \E keyword \in selfCheckKeywords : includes(toLowerCase(attribute), keyword)
  IN (/\ domCall.fn = "isCookieRelatedButton"
      /\ domCall.made
      /\ \A field \in own :
           \A keyword \in EXCLUDE_KEYWORDS \cup selfCheckKeywords :
             ~includes(toLowerCase(field), keyword))
     => (domCall.result <=> \E distance \in 1..5 : distance <= Len(ancestors) /\ carries(distance))

\* A button labelled "OK" without attributes, in a parent without class and
\* id beneath which the text "Cookie" stands, has been accepted.
C28_AcceptedOnAncestorText ==
  /\ domCall.fn = "isCookieRelatedButton"
  /\ domCall.made
  /\ domCall.input.element =
       [text |-> StrOK, className |-> StrEmpty, id |-> StrEmpty, ariaLabel |-> StrEmpty]
  /\ domCall.input.ancestors = <<Ancestor(StrCookie, StrEmpty, StrEmpty)>>
  /\ domCall.result = TRUE

\* C29: when an eligible element matches the customize/settings rule
\* ("Tilpass eller avvis") and an eligible element matches the final-reject
\* rule ("Avvis alle") of the same flow, the scan attempts the
\* customize/settings rule first: its click is on the customize element.
C29_CustomizeBeforeFinalReject ==
  LET doc == domCall.input.doc
      eligible(text) == {i \in DOMAIN doc : /\ doc[i].tag = "button"
                                             /\ doc[i].visible
                                             /\ doc[i].textContent = text}
  IN (/\ domCall.fn = "findAndClickDeclineButton"
      /\ domCall.made
      /\ eligible(StrTilpassEllerAvvis) # {}
      /\ eligible(StrAvvisAlle) # {})
     => domCall.result.element \in eligible(StrTilpassEllerAvvis)

\* On a page with a visible "Tilpass eller avvis" button followed by a
\* visible "Avvis alle" button the scan has clicked "Avvis alle", on the
\* first rule of the catalog.
C29_FinalRejectClickedFirst ==
  /\ domCall.fn = "findAndClickDeclineButton"
  /\ domCall.made
  /\ domCall.input.doc =
       <<[tag |-> "button", textContent |-> StrTilpassEllerAvvis, visible |-> TRUE],
         [tag |-> "button", textContent |-> StrAvvisAlle, visible |-> TRUE]>>
  /\ domCall.result = [rule |-> 1, element |-> 2]
  /\ processed = {2}
  /\ consentProcessed

\* C30: with an eligible decline button on the page and consent not processed,
\* the initial scan clicks a button and consent is processed in that step;
\* the later removal of a clicked button from the DOM starts no scan, sets no
\* timer and makes no click and no vendor call.
C30_InitialClickThenQuietRemoval ==
  [][/\ (/\ pc = "scan"
         /\ pc' = "observer"
         /\ ~(consentProcessed \/ apiConsentProcessed)
         /\ \E e \in Elements : dom[e] = "eligible")
        => /\ clicks' = clicks + 1
           /\ consentProcessed'
           /\ apiConsentProcessed'
           /\ \E e \in processed' \ processed : dom[e] \in {"eligible", "throwing"}
     /\ \A e \in processed :
          (dom[e] # "absent" /\ dom'[e] = "absent")
          => /\ timers' = timers
             /\ clicks' = clicks
             /\ vendorDeclines' = vendorDeclines
             /\ pingPending' = pingPending
             /\ processed' = processed
             /\ lastOp' = Idle]_vars

\* The button the initial scan clicked has been removed from the page: the
\* observer, set up after the click, is still connected, and no rescan is
\* pending.
C30_ClickedBannerRemoved ==
  /\ pc = "running"
  /\ clicks = 1
  /\ consentProcessed
  /\ observer = "connected"
  /\ \E e \in processed : dom[e] = "absent"
  /\ Pending("rescan") = {}
  /\ lastOp = Idle

C32_OneRescanPerRelevantRecord ==
  [][/\ (/\ events' = events + 1
         /\ observer = "connected"
         /\ ~(consentProcessed \/ apiConsentProcessed))
        => LET batch == domCall'.input
               relevant == {i \in DOMAIN batch :
                              \E k \in DOMAIN batch[i] :
                                \E content \in {batch[i][k].textContent, batch[i][k].className,
                                                 batch[i][k].id} :
                                  \E keyword \in COOKIE_KEYWORDS :
                                    includes(toLowerCase(content), keyword)}
               new == timers' (-) timers
           IN /\ timers \sqsubseteq timers'
              /\ BagCardinality(new) = Cardinality(relevant)
              /\ \A t \in BagToSet(new) : t.kind = "rescan" /\ t.arg \in 400..599
     /\ (BagCardinality(timers') < BagCardinality(timers))
        => IF consentProcessed \/ apiConsentProcessed
           THEN clicks' = clicks /\ lastOp' = Idle
           ELSE (\E e \in Elements : dom[e] = "eligible" /\ e \notin processed)
                  => clicks' = clicks + 1 /\ consentProcessed' /\ apiConsentProcessed']_vars

\* The observer was handed a record that adds an SVG element followed by a
\* record that adds an element of class "Cookie": the callback has ended with
\* an exception and no rescan is pending.
C32_RelevantRecordAfterSvgLost ==
  /\ domCall.fn = "hasCookieContent"
  /\ domCall.made
  /\ domCall.input = <<<<AddedElement("svg", StrEmpty, StrEmpty, StrEmpty)>>,
                       <<AddedElement("html", StrEmpty, StrCookie, StrEmpty)>>>>
  /\ "uncaught" \in lastOp.effects
  /\ Pending("rescan") = {}
  /\ ~consentProcessed

\* C33: within a declineAllConsent call that passed the gates on a page with a
\* TCF entry point, the call itself only sends the ping; the bulk decline is
\* invoked only in the ping callback that reports success with cmpLoaded;
\* the bulk-decline callback that reports success marks consent processed and
\* does nothing else; a failed ping and a failed bulk decline invoke the
\* SourcePoint entry points if window._sp_ exists and mark consent processed
\* if that block completes, and otherwise (no global, or an entry point
\* threw) leave the flag as it was and schedule one message per iframe.
C33_TcfDeclineOrder ==
  [][LET alternatives ==
           /\ vendorDeclines' =
                IF sp.present /\ sp.methods # {} /\ vendorDeclines < EffectCap
                THEN vendorDeclines + 1 ELSE vendorDeclines
           /\ ("spDecline" \in lastOp'.effects) = (sp.present /\ sp.methods # {})
           /\ IF sp.present /\ ~sp.throws
              THEN apiConsentProcessed' /\ timers' = timers
              ELSE /\ apiConsentProcessed' = apiConsentProcessed
                   /\ timers' = timers (+) SetToBag({Timer("iframePost", f) : f \in iframes})
     IN /\ (lastOp'.gate = "passed" /\ tcfapi /\ declineAttemptCount' = declineAttemptCount + 1)
           => /\ pingPending' = pingPending + 1
              /\ UNCHANGED <<bulkPending, apiConsentProcessed, vendorDeclines, timers>>
        /\ bulkPending' > bulkPending => PingCallback(TRUE, TRUE)
        /\ \A success \in BOOLEAN, cmpLoaded \in BOOLEAN :
             PingCallback(success, cmpLoaded)
             => IF success /\ cmpLoaded
                THEN /\ bulkPending' = bulkPending + 1
                     /\ "tcfDecline" \in lastOp'.effects
                     /\ UNCHANGED <<apiConsentProcessed, timers>>
                ELSE bulkPending' = bulkPending /\ alternatives
        /\ \A success \in BOOLEAN :
             BulkDeclineCallback(success)
             => IF success
                THEN apiConsentProcessed' /\ UNCHANGED <<vendorDeclines, timers>>
                ELSE alternatives
        /\ (/\ pingPending' # pingPending \/ bulkPending' # bulkPending
            /\ apiConsentProcessed' /\ ~apiConsentProcessed)
           => \/ BulkDeclineCallback(TRUE)
              \/ sp.present /\ ~sp.throws /\ ~PingCallback(TRUE, TRUE)]_vars

\* The bulk decline was invoked, its callback reported failure, and on a page
\* without window._sp_ the iframes are messaged while consent stays
\* unprocessed.
C33_FailedBulkDeclineMessagesIframes ==
  /\ tcfapi
  /\ ~sp.present
  /\ iframes # {}
  /\ vendorDeclines = 1
  /\ declineAttemptCount = 1
  /\ pingPending = 0
  /\ bulkPending = 0
  /\ lastOp.effects = {}
  /\ \A f \in iframes : Timer("iframePost", f) \in BagToSet(timers)
  /\ ~apiConsentProcessed

\* C34: handleCheckboxConsent returns true exactly when it unchecked at least
\* one checkbox that was enabled, checked, of an optional category and inside
\* a cookie/consent container, and then clicked a visible save button; the
\* checkboxes it changes are all of that kind (never a disabled one, one
\* labelled necessary or essential, or one outside such a container), each is
\* changed from checked to unchecked and gets one change event.
C34_TrueIffUncheckedAndSaved ==
  (domCall.fn = "handleCheckboxConsent" /\ domCall.made)
  => LET boxes == domCall.input.boxes
         doc == domCall.input.doc
         outcome == domCall.result
         changed == {i \in DOMAIN boxes : outcome.checked[i] # boxes[i].checked}
         eligible(i) ==
           /\ ~boxes[i].disabled
           /\ boxes[i].checked
           /\ boxes[i].label = StrMarkedsforing
           /\ boxes[i].container = Container(StrCookieConsentManager, StrEmpty)
         saved ==
           /\ outcome.clicked \in DOMAIN doc
           /\ doc[outcome.clicked].visible
           /\ \/ doc[outcome.clicked].tag = "button" /\ doc[outcome.clicked].textContent = StrLagreOgLukk
              \/ doc[outcome.clicked].tag = "div" /\ doc[outcome.clicked].confirm
     IN /\ outcome.value = ((\E i \in changed : eligible(i)) /\ saved)
        /\ \A i \in changed : eligible(i) /\ ~outcome.checked[i]
        /\ outcome.changeEvents = changed

\* A form with a necessary checkbox and a marketing checkbox, both checked
\* and enabled, in a cookie container, and a visible save button: the
\* marketing one is unchecked, the button is clicked, the call returns true.
C34_MarketingUncheckedNecessaryKept ==
  /\ domCall.fn = "handleCheckboxConsent"
  /\ domCall.made
  /\ domCall.input.boxes =
       << [disabled |-> FALSE, checked |-> TRUE,
           container |-> Container(StrCookieConsentManager, StrEmpty), label |-> StrNodvendige],
          [disabled |-> FALSE, checked |-> TRUE,
           container |-> Container(StrCookieConsentManager, StrEmpty), label |-> StrMarkedsforing] >>
  /\ domCall.input.doc = <<SaveElement("button", StrLagreOgLukk, TRUE, FALSE)>>
  /\ domCall.result.value
  /\ domCall.result.checked = <<TRUE, FALSE>>
  /\ domCall.result.clicked = 1

\* C35: a call of handleCheckboxConsent that returns false has left every
\* checkbox as it was, dispatched no change event and clicked nothing.
C35_FalseMeansUntouched ==
  (domCall.fn = "handleCheckboxConsent" /\ domCall.made /\ ~domCall.result.value)
  => /\ \A i \in DOMAIN domCall.input.boxes :
          domCall.result.checked[i] = domCall.input.boxes[i].checked
     /\ domCall.result.changeEvents = {}
     /\ domCall.result.clicked = 0

\* A checked marketing checkbox in a cookie container on a page whose only
\* save button is hidden: the call returns false with the checkbox unchecked
\* and a change event dispatched.
C35_UncheckedWithoutSaveButton ==
  /\ domCall.fn = "handleCheckboxConsent"
  /\ domCall.made
  /\ domCall.input.boxes =
       << [disabled |-> FALSE, checked |-> TRUE,
           container |-> Container(StrCookieConsentManager, StrEmpty), label |-> StrMarkedsforing] >>
  /\ domCall.input.doc = <<SaveElement("button", StrLagreOgLukk, FALSE, FALSE)>>
  /\ ~domCall.result.value
  /\ domCall.result.checked = <<FALSE>>
  /\ domCall.result.changeEvents = {1}
  /\ domCall.result.clicked = 0

\* C36: a step that turns one of the two processed flags on has issued a DOM
\* click, received a TCF bulk-decline success, invoked at least one
\* SourcePoint decline entry point, or accepted an sp.hideMessage.
C36_ProcessedOnlyWithDeclineOrSignal ==
  [][(\/ apiConsentProcessed' /\ ~apiConsentProcessed
      \/ consentProcessed' /\ ~consentProcessed)
     => lastOp'.effects \cap {"click", "tcfSuccess", "spDecline", "hideMessage"} # {}]_vars

\* On a page whose window._sp_ exposes none of the entry points, consent is
\* processed although no vendor decline was invoked, nothing was clicked and
\* the last step performed no effect.
C36_ProcessedByEmptySourcePointGlobal ==
  /\ sp.present
  /\ sp.methods = {}
  /\ apiConsentProcessed
  /\ vendorDeclines = 0
  /\ clicks = 0
  /\ declineAttemptCount = 1
  /\ lastOp.effects = {}

\* C37: in every reachable state the set of elements the orchestrator has
\* attempted holds at most one element, and if it holds one then the
\* orchestrator's consentProcessed flag is set.
C37_AtMostOneAttemptedElement ==
  /\ Cardinality(processed) <= 1
  /\ processed # {} => consentProcessed

\* One element has been attempted and consent is processed; the page has
\* inserted nodes since, a second eligible element is in it, and the last
\* step performed no effect.
C37_SecondEligibleElementLeftAlone ==
  /\ Cardinality(processed) = 1
  /\ \E e \in Elements \ processed : dom[e] = "eligible"
  /\ consentProcessed
  /\ events > 0
  /\ lastOp = Idle

\* C38: in every reachable state the orchestrator's consentProcessed flag
\* implies APIHandler's; and when either flag is set, the initial scan and
\* every rescan, sp.showMessage, iframe-check and iframe-load timer that runs
\* changes nothing but the timer it consumes, and no step (the observer
\* callback included) schedules a rescan.
C38_EitherFlagStopsEveryTrigger ==
  /\ [](consentProcessed => apiConsentProcessed)
  /\ [][(consentProcessed \/ apiConsentProcessed)
        => /\ (\/ pc = "scan"
               \/ \E t \in BagToSet(timers) :
                    /\ t.kind \in {"rescan", "showMessage", "iframeCheck", "iframeLoad"}
                    /\ CopiesIn(t, timers') < CopiesIn(t, timers))
              => /\ lastOp'.effects = {}
                 /\ timers' \sqsubseteq timers
                 /\ UNCHANGED <<consentProcessed, apiConsentProcessed, processed, observer,
                                processedIframes, clicks, vendorDeclines, pingPending,
                                declineAttemptCount, lastDeclineAttempt>>
           /\ \A t \in BagToSet(timers') :
                t.kind = "rescan" => CopiesIn(t, timers') <= CopiesIn(t, timers)]_vars

\* Only APIHandler's flag is set: the page holds an eligible element and an
\* iframe, init is over and the three iframe checks have run, and nothing was
\* clicked, no iframe got a load listener and no rescan is pending.
C38_ApiFlagAloneStopsTriggers ==
  /\ pc = "running"
  /\ apiConsentProcessed
  /\ ~consentProcessed
  /\ \E e \in Elements : dom[e] = "eligible"
  /\ iframes # {}
  /\ Pending("iframeCheck") = {}
  /\ processedIframes = {}
  /\ Pending("rescan") = {}
  /\ clicks = 0

\* C39: once the customize control (step 1) has been clicked and the
\* final-reject control (step 2) is in the page, the final-reject control is
\* eventually clicked.
C39_StepTwoEventuallyClicked ==
  (StepOneControl \in processed /\ dom[StepTwoControl] = "eligible")
    ~> (StepTwoControl \in processed)

\* The customize control was clicked, the final-reject control is in the
\* page, and the program is at rest: the observer is disconnected, no
\* callback is pending, and the final-reject control was not clicked.
C39_StepTwoNeverScanned ==
  /\ pc = "running"
  /\ StepOneControl \in processed
  /\ dom[StepTwoControl] = "eligible"
  /\ StepTwoControl \notin processed
  /\ observer = "disconnected"
  /\ timers = EmptyBag
  /\ clicks = 1

\* C40: no rule of the combined catalog carries a description that labels
\* its target an accept-all control, and a scan that clicks does so through
\* a rule that is not labelled so.
C40_NoAcceptAllRule ==
  /\ \A k \in DOMAIN getAllDeclineSelectors :
       ~includes(toLowerCase(getAllDeclineDescriptions[k]),
                 <<"a", "c", "c", "e", "p", "t", " ", "a", "l", "l">>)
  /\ (domCall.fn = "findAndClickDeclineButton" /\ domCall.made /\ domCall.result # NoClick)
     => ~includes(toLowerCase(getAllDeclineDescriptions[domCall.result.rule]),
                  <<"a", "c", "c", "e", "p", "t", " ", "a", "l", "l">>)

\* The scan of a page whose only button is the banner's visible "Godta" with
\* class sp_choice_type_12 has clicked it through the rule
\* '.sp_choice_type_12', 'SourcePoint: Accept all button', and consent is
\* marked processed.
C40_AcceptAllClicked ==
  /\ domCall.fn = "findAndClickDeclineButton"
  /\ domCall.made
  /\ domCall.input.doc = << [tag |-> "button", textContent |-> StrGodta, visible |-> TRUE,
                             className |-> StrMessageButtonType12] >>
  /\ domCall.result.element = 1
  /\ getAllDeclineSelectors[domCall.result.rule].scope = ".sp_choice_type_12"
  /\ getAllDeclineDescriptions[domCall.result.rule] =
       <<"S", "o", "u", "r", "c", "e", "P", "o", "i", "n", "t", ":", " ", "A", "c", "c", "e", "p", "t", " ", "a", "l", "l", " ", "b", "u", "t", "t", "o", "n">>
  /\ clicks = 1
  /\ consentProcessed

====
